---- MODULE Spec2Model ----
(***************************************************************************)
(* Model of the ReplyGuy.AI browser extension's services:                  *)
(*   - StorageService (src/extension/services/storage-service.ts):         *)
(*     the settings record in chrome.storage.sync and the reply history    *)
(*     in chrome.storage.local;                                            *)
(*   - AIService.makeAPIRequest (src/extension/services/ai-service.ts):    *)
(*     the retry loop around the chat-completion request;                  *)
(*   - overlapping updateSettings / updateDefaultCustomization calls,      *)
(*     split at their awaits.                                              *)
(***************************************************************************)
EXTENDS Integers, Sequences, FiniteSets, TLC

VARIABLES
    settings,   \* chrome.storage.sync['redditReplyAI_settings'] (<< >> when nothing is stored)
    history,    \* chrome.storage.local['redditReplyAI_history'], in stored order
    last,       \* the storage call that has just completed, until its caller resumes:
                \* its name, argument, the stored state it started from, and its result
    genPc,      \* AIService.generateReply: "idle", "fetch" (awaiting the response of an
                \* attempt), "sleep" (awaiting the backoff), "returned" or "threw"
    attempt,    \* makeAPIRequest's loop variable
    requests,   \* fetch calls made by the current generateReply call
    sleeps,     \* the delays (ms) the current call has waited, in order
    lastError,  \* makeAPIRequest's lastError: the message of the last failure
    outcomes,   \* what each attempt of the current call received, in order
    genResult,  \* the content generateReply returned
    calls,      \* overlapping updateSettings / updateDefaultCustomization calls: for
                \* each, its kind, its caller's argument (own), the object handed to
                \* updateSettings (arg), the snapshot getSettings gave it (current),
                \* its position, and how many writes had landed at its latest read
    writes,     \* the calls that have written the settings record, in order
    bg,         \* BackgroundService: the GENERATE_REPLY handler in progress and the
                \* message last answered, with the responses passed to sendResponse
    web,        \* the web app's server: MemStorage and the request last answered
    ui,         \* the UI surfaces: the injected modal, the injected panel, the web form
    prompt,     \* the prompt last built: by whom, for which customization, and the
                \* target word count and token budget written into the request
    parsed,     \* RedditExtractor.parseNumber: the text last parsed and its result
    handlers,   \* overlapping GENERATE_REPLY handlers: for each, its position, the
                \* settings and the history it has read, its entry and its outcome
    appends,    \* the handlers that have written the history, in order
    inflight,   \* POST /api/reddit/fetch requests awaiting fetchRedditContent: their urls
    onboarding  \* the onboarding page: its script, currentStep, the API key input,
                \* the Next button, the transition timers and key tests pending,
                \* and what it has stored under 'replyGuyAI_settings'

(***************************************************************************)
(* Bounds of the model.                                                    *)
(***************************************************************************)
\* Stands for the source's maxHistorySize = 500 (storage-service.ts:125),
\* scaled down so that a full history is reachable.
maxHistorySize == 2

\* Calls of updateSettings / updateDefaultCustomization that may overlap.
NumCalls == 2
\* The model explores stored histories of at most this many entries.
MaxStored == maxHistorySize + 1

(***************************************************************************)
(* Values.                                                                 *)
(***************************************************************************)
REDACTED == "[REDACTED]"
CENSORED == "sk-...\\u2022\\u2022\\u2022\\u2022"   \* what populateSettingsForm shows: contains the bullet character

ApiKeys == {"", "sk-A", "sk-B"}

\* the top-level fields of ExtensionSettings
SettingsFields ==
    {"openaiApiKey", "defaultCustomization", "autoDetectContext", "saveHistory", "darkMode"}

\* A record with optional fields is a function whose domain is the set of
\* the fields present; {} of the source is the function with empty domain.
EmptyObject == << >>

\* { ...a, ...b }
Spread(a, b) ==
    [f \in (DOMAIN a) \cup (DOMAIN b) |-> IF f \in DOMAIN b THEN b[f] ELSE a[f]]

\* const { [field]: _, ...rest } = a
Omit(a, field) == [f \in (DOMAIN a) \ {field} |-> a[f]]

\* JavaScript truthiness of an optional field: undefined, '' and false are falsy.
TruthyString(obj, f) == f \in DOMAIN obj /\ obj[f] # ""
TruthyBoolean(obj, f) == f \in DOMAIN obj /\ obj[f]

\* defaultCustomization values: partial CustomizationOptions
DefaultCustomization == [length |-> "medium", mood |-> "supportive", tone |-> "neutral"]
CustomizationUpdates ==
    { [length |-> "small"], [mood |-> "witty", tone |-> "formal"] }

defaultSettings ==
    [ openaiApiKey         |-> "",
      defaultCustomization |-> DefaultCustomization,
      autoDetectContext    |-> TRUE,
      saveHistory          |-> TRUE,
      darkMode             |-> FALSE ]

(***************************************************************************)
(* Reply history entries: the id and the timestamp of a ReplyHistory.      *)
(***************************************************************************)
ReplyIds   == 1 .. (maxHistorySize + 1)
\* ISO strings in the source, compared as Dates: an older and a newer instant
Timestamps == {1, 2}
Replies    == [id : ReplyIds, timestamp : Timestamps]

Ids(h) == { h[i].id : i \in 1 .. Len(h) }

\* history.sort((a, b) => Date(b.timestamp) - Date(a.timestamp)): newest
\* first; Array.prototype.sort is stable, so equal timestamps keep their order.
InsertByTime(sorted, e) ==
    LET older == { i \in 1 .. Len(sorted) : sorted[i].timestamp < e.timestamp }
        at    == IF older = {} THEN Len(sorted) + 1
                 ELSE CHOOSE i \in older : \A j \in older : i <= j
    IN  SubSeq(sorted, 1, at - 1) \o << e >> \o SubSeq(sorted, at, Len(sorted))

RECURSIVE SortNewestFirst(_)
SortNewestFirst(h) ==
    IF h = << >> THEN << >>
    ELSE InsertByTime(SortNewestFirst(SubSeq(h, 1, Len(h) - 1)), h[Len(h)])

(***************************************************************************)
(* StorageService, each method as the value it stores or returns.          *)
(***************************************************************************)
\* getSettings: result[key] || {}
getSettings(stored) == stored

\* Faulty variant: the partial update replaces the record instead of being merged into it
updateSettings_Replace(current, partial) == partial

\* updateSettings: { ...currentSettings, ...settings }
updateSettings(current, partial) == Spread(current, partial)

\* Faulty variant: the stored order is returned as it is, without the sort
getReplyHistory_Unsorted(stored, limit) ==
    IF limit # 0 THEN SubSeq(stored, 1, IF limit < Len(stored) THEN limit ELSE Len(stored))
    ELSE stored

\* getReplyHistory(limit): sorted newest first, sliced when limit is truthy
getReplyHistory(stored, limit) ==
    LET sorted == SortNewestFirst(stored)
    IN  IF limit # 0 THEN SubSeq(sorted, 1, IF limit < Len(sorted) THEN limit ELSE Len(sorted))
        ELSE sorted

\* addToHistory: unshift, then splice(maxHistorySize)
addToHistory(stored, reply) ==
    LET h == << reply >> \o getReplyHistory(stored, 0)
    IN  IF Len(h) > maxHistorySize THEN SubSeq(h, 1, maxHistorySize) ELSE h

\* removeFromHistory
removeFromHistory(stored, replyId) ==
    LET keep(item) == item.id # replyId
    IN  SelectSeq(getReplyHistory(stored, 0), keep)

\* Faulty variant: the spread order is reversed, so a stored key overrides the marker
exportData_KeyKept(storedSettings, storedHistory, now) ==
    [ settings        |-> Spread([openaiApiKey |-> REDACTED], getSettings(storedSettings)),
      history         |-> getReplyHistory(storedHistory, 0),
      exportTimestamp |-> now,
      version         |-> "2.0.0" ]

\* exportData (exportTimestamp is the wall clock, passed in)
exportData(storedSettings, storedHistory, now) ==
    [ settings        |-> Spread(getSettings(storedSettings), [openaiApiKey |-> REDACTED]),
      history         |-> getReplyHistory(storedHistory, 0),
      exportTimestamp |-> now,
      version         |-> "2.0.0" ]

\* Faulty variant: the payload's settings are merged whole, key included
importSettings_WithKey(storedSettings, data) ==
    IF "settings" \in DOMAIN data
    THEN updateSettings(getSettings(storedSettings), data.settings)
    ELSE storedSettings

\* importData, settings half: the payload's openaiApiKey is destructured away
importSettings(storedSettings, data) ==
    IF "settings" \in DOMAIN data
    THEN updateSettings(getSettings(storedSettings), Omit(data.settings, "openaiApiKey"))
    ELSE storedSettings

\* importData, history half: existing entries, then the imported ones whose id is not stored
importHistory(storedHistory, data) ==
    IF "history" \in DOMAIN data
    THEN LET existingHistory == getReplyHistory(storedHistory, 0)
             existingIds     == Ids(existingHistory)
             isNew(item)     == item.id \notin existingIds
         IN  existingHistory \o SelectSeq(data.history, isNew)
    ELSE storedHistory

\* updateDefaultCustomization: the settings object handed on to updateSettings
updatedDefaultCustomization(current, customization) ==
    Spread(current,
           [defaultCustomization |->
                Spread(IF "defaultCustomization" \in DOMAIN current
                       THEN current.defaultCustomization ELSE EmptyObject,
                       customization)])

\* PopupManager.saveSettings: the partial settings built from the api-key input
popupSettings(input) ==
    IF input # "" /\ input # CENSORED THEN [openaiApiKey |-> input] ELSE EmptyObject

(***************************************************************************)
(* AIService: error texts and the retry decision.                          *)
(***************************************************************************)
\* private maxRetries = 3; private retryDelay = 1000
maxRetries == 3
retryDelay == 1000

NoError   == << >>

\* A completion's content is the sequence of its characters: "w" stands for
\* any character that is not white space.
Whitespace == {" ", "\n"}
\* choices[0].message.content is undefined
NoContent == << "undefined" >>

\* The texts the model uses, and String.prototype.toLowerCase on them.
toLowerCase(text) ==
    CASE text = "OpenAI API error:"                       -> "openai api error:"
      [] text = "Unauthorized"                            -> "unauthorized"
      [] text = "Forbidden"                               -> "forbidden"
      [] text = "Bad Request"                             -> "bad request"
      [] text = "Too Many Requests"                       -> "too many requests"
      [] text = "Internal Server Error"                   -> "internal server error"
      [] text = "Invalid API key"                         -> "invalid api key"
      [] text = "Rate limit reached: Limit 40000 TPM"     -> "rate limit reached: limit 40000 tpm"
      [] text = "Failed to fetch"                         -> "failed to fetch"
      [] text = "Invalid response format from OpenAI API" -> "invalid response format from openai api"
      [] text = "Empty response from OpenAI API"          -> "empty response from openai api"
      [] text = "OpenAI API key is required"              -> "openai api key is required"
      [] text = "OpenAI API key not configured. Please set it in extension settings."
           -> "openai api key not configured. please set it in extension settings."
      [] text = "Invalid OpenAI API key format. Please check your key in settings."
           -> "invalid openai api key format. please check your key in settings."
      [] text = "Invalid request: missing post or customization data"
           -> "invalid request: missing post or customization data"
      [] text = "Cannot read properties of undefined (reading 'id')"
           -> "cannot read properties of undefined (reading 'id')"
      [] text = "Cannot read properties of undefined (reading 'apiKey')"
           -> "cannot read properties of undefined (reading 'apikey')"
      [] text = "QUOTA_BYTES quota exceeded"              -> "quota_bytes quota exceeded"
      [] OTHER                                            -> text

\* The substrings shouldNotRetry (and the one its faulty variant adds) and
\* categorizeError look for that occur in a text: String.prototype.includes,
\* case-sensitive.
Needles ==
    {"401", "403", "invalid api key", "400", "bad request", "invalid response format",
     "empty response",
     "api key", "missing", "invalid", "unauthorized", "rate limit", "too many requests",
     "reddit", "not found", "invalid reddit page", "not a reddit", "content extraction",
     "failed to extract", "storage", "quota", "network", "fetch", "timeout",
     "permission", "denied"}
includes(text, needle) ==
    needle \in
      CASE text = "400"                                     -> {"400"}
        [] text = "401"                                     -> {"401"}
        [] text = "403"                                     -> {"403"}
        [] text = "bad request"                             -> {"bad request"}
        [] text = "unauthorized"                            -> {"unauthorized"}
        [] text = "too many requests"                       -> {"too many requests"}
        [] text = "invalid api key"                         -> {"invalid api key", "api key", "invalid"}
        [] text = "rate limit reached: limit 40000 tpm"     -> {"400", "rate limit"}
        [] text = "failed to fetch"                         -> {"fetch"}
        [] text = "invalid response format from openai api" -> {"invalid response format", "invalid"}
        [] text = "empty response from openai api"          -> {"empty response"}
        [] text = "openai api key is required"              -> {"api key"}
        [] text = "openai api key not configured. please set it in extension settings."
             -> {"api key"}
        [] text = "invalid openai api key format. please check your key in settings."
             -> {"api key", "invalid"}
        [] text = "invalid request: missing post or customization data"
             -> {"invalid", "missing"}
        [] text = "quota_bytes quota exceeded"              -> {"quota"}
        [] OTHER                                            -> {}

\* An error message is the sequence of its parts (the separators between
\* them hold no needle); message.toLowerCase().includes(needle)
messageIncludes(message, needle) ==
    \E i \in 1 .. Len(message) : includes(toLowerCase(message[i]), needle)

\* the decimal digits of an HTTP status
StatusText(status) ==
    CASE status = 400 -> "400" [] status = 401 -> "401" [] status = 403 -> "403"
      [] status = 429 -> "429" [] status = 500 -> "500"

\* response.statusText
statusText(status) ==
    CASE status = 400 -> "Bad Request"
      [] status = 401 -> "Unauthorized"
      [] status = 403 -> "Forbidden"
      [] status = 429 -> "Too Many Requests"
      [] status = 500 -> "Internal Server Error"

\* Faulty variant: the 401 test is missing
shouldNotRetry_No401(message) ==
    \/ messageIncludes(message, "403") \/ messageIncludes(message, "invalid api key")
    \/ messageIncludes(message, "400") \/ messageIncludes(message, "bad request")

\* Faulty variant: a malformed response is treated as not retryable
shouldNotRetry_FormatToo(message) ==
    \/ messageIncludes(message, "401") \/ messageIncludes(message, "403")
    \/ messageIncludes(message, "invalid api key")
    \/ messageIncludes(message, "400") \/ messageIncludes(message, "bad request")
    \/ messageIncludes(message, "invalid response format")
    \/ messageIncludes(message, "empty response")

\* shouldNotRetry(error)
shouldNotRetry(message) ==
    \/ messageIncludes(message, "401") \/ messageIncludes(message, "403")
    \/ messageIncludes(message, "invalid api key")
    \/ messageIncludes(message, "400") \/ messageIncludes(message, "bad request")

(***************************************************************************)
(* ErrorHandler: the category of an error and the sentence shown for it.   *)
(***************************************************************************)
\* categorizeError(error): the first test that matches, in the order of the code
categorizeError(message) ==
    IF messageIncludes(message, "api key") /\ messageIncludes(message, "missing")
    THEN "API_KEY_MISSING"
    ELSE IF messageIncludes(message, "api key")
            /\ (messageIncludes(message, "invalid") \/ messageIncludes(message, "unauthorized"))
    THEN "API_KEY_INVALID"
    ELSE IF messageIncludes(message, "rate limit") \/ messageIncludes(message, "too many requests")
    THEN "API_RATE_LIMITED"
    ELSE IF messageIncludes(message, "reddit") /\ messageIncludes(message, "not found")
    THEN "REDDIT_CONTENT_NOT_FOUND"
    ELSE IF messageIncludes(message, "invalid reddit page") \/ messageIncludes(message, "not a reddit")
    THEN "INVALID_REDDIT_PAGE"
    ELSE IF messageIncludes(message, "content extraction")
            \/ messageIncludes(message, "failed to extract")
    THEN "CONTENT_EXTRACTION_FAILED"
    ELSE IF messageIncludes(message, "storage") \/ messageIncludes(message, "quota")
    THEN "STORAGE_ERROR"
    ELSE IF messageIncludes(message, "network") \/ messageIncludes(message, "fetch")
    THEN "NETWORK_ERROR"
    ELSE IF messageIncludes(message, "timeout")
    THEN "TIMEOUT_ERROR"
    ELSE IF messageIncludes(message, "permission") \/ messageIncludes(message, "denied")
    THEN "PERMISSION_DENIED"
    ELSE "UNKNOWN_ERROR"

\* sanitizeErrorMessage(originalMessage, errorCode)
sanitizeErrorMessage(errorCode) ==
    CASE errorCode = "API_KEY_MISSING" ->
           "OpenAI API key is required. Please configure it in extension settings."
      [] errorCode = "API_KEY_INVALID" ->
           "Invalid OpenAI API key. Please check your key in extension settings."
      [] errorCode = "API_RATE_LIMITED" ->
           "API rate limit exceeded. Please wait a moment before trying again."
      [] errorCode = "REDDIT_CONTENT_NOT_FOUND" ->
           "Unable to find Reddit content on this page. Please make sure you're on a Reddit post or comment."
      [] errorCode = "INVALID_REDDIT_PAGE" ->
           "This doesn't appear to be a valid Reddit page. Please navigate to a Reddit post or comment."
      [] errorCode = "CONTENT_EXTRACTION_FAILED" ->
           "Failed to extract content from this Reddit page. The page structure may have changed."
      [] errorCode = "STORAGE_ERROR" ->
           "Unable to save data. Please check your browser storage permissions."
      [] errorCode = "PERMISSION_DENIED" ->
           "Permission denied. Please ensure the extension has necessary permissions for Reddit."
      [] errorCode = "NETWORK_ERROR" ->
           "Network error occurred. Please check your internet connection and try again."
      [] errorCode = "TIMEOUT_ERROR" -> "Request timed out. Please try again."
      [] errorCode = "CONTENT_TOO_LONG" ->
           "Content is too long to process. Please try with shorter content."
      [] OTHER ->
           "An unexpected error occurred. Please try again or contact support if the issue persists."

\* ErrorHandler.handle(error, context): the ErrorDetails it returns (code and message)
handle(message) ==
    [code |-> categorizeError(message), message |-> sanitizeErrorMessage(categorizeError(message))]

(***************************************************************************)
(* What one attempt can receive.                                           *)
(***************************************************************************)
ErrorStatuses == {400, 401, 403, 429, 500}
\* errorData.error?.message ("" when the body holds none)
\* data.choices?.[0]?.message?.content of a 200 response
Contents == {NoContent, << >>, << " ", " " >>, << " ", "w", " ", "w", "\n" >>}

ErrorBodiesOf(status) ==
    IF status \in {401, 403} THEN {"", "Invalid API key"}
    ELSE IF status \in {429, 500} THEN {"", "Rate limit reached: Limit 40000 TPM"}
    ELSE {""}

Outcomes ==
    { [kind |-> "network", text |-> "Failed to fetch"] }
    \cup UNION { { [kind |-> "http", status |-> st, text |-> body] : body \in ErrorBodiesOf(st) } :
                   st \in ErrorStatuses }
    \cup [kind : {"ok"}, content : Contents]

\* String.prototype.trim
trim(content) ==
    LET kept == { i \in 1 .. Len(content) : content[i] \notin Whitespace }
    IN  IF kept = {} THEN << >>
        ELSE SubSeq(content, CHOOSE i \in kept : \A j \in kept : i <= j,
                             CHOOSE i \in kept : \A j \in kept : j <= i)

\* The message of the Error one attempt ends with, NoError when it returns.
attemptError(outcome) ==
    CASE outcome.kind = "network" -> << outcome.text >>
      [] outcome.kind = "http" ->
           << "OpenAI API error:", StatusText(outcome.status), "-",
              IF outcome.text # "" THEN outcome.text ELSE statusText(outcome.status) >>
      [] outcome.kind = "ok" ->
           IF outcome.content = NoContent \/ outcome.content = << >>
           THEN << "Invalid response format from OpenAI API" >>
           ELSE IF trim(outcome.content) = << >>
                THEN << "Empty response from OpenAI API" >>
                ELSE NoError

\* Math.pow(2, n)
RECURSIVE Pow2(_)
Pow2(n) == IF n = 0 THEN 1 ELSE 2 * Pow2(n - 1)

\* the backoff before the attempt after `n`
backoffDelay(n) == retryDelay * Pow2(n - 1)

(***************************************************************************)
(* AIService: the reply built from a completion, and the prompt's numbers. *)
(***************************************************************************)
\* Faulty variant: any key that starts with sk- passes
validateApiKey_PrefixOnly(apiKey) == apiKey \in {"sk-A", "sk-B", "sk-short"}

\* The keys of the model stand for strings of these shapes: whether the
\* string starts with "sk-", its length, and whether what follows "sk-" is
\* letters and digits only.  "sk-A" and "sk-B" stand for well-formed keys of
\* 51 characters, "sk-short" for a short one, "sk-medium" for 32 characters,
\* "sk-proj" for a project key (sk-proj-..., with hyphens and underscores).
KeyShape(apiKey) ==
    CASE apiKey \in {"sk-A", "sk-B"} -> [sk |-> TRUE, length |-> 51, alphanumeric |-> TRUE]
      [] apiKey = "sk-short"  -> [sk |-> TRUE, length |-> 8, alphanumeric |-> TRUE]
      [] apiKey = "sk-medium" -> [sk |-> TRUE, length |-> 32, alphanumeric |-> TRUE]
      [] apiKey = "sk-proj"   -> [sk |-> TRUE, length |-> 164, alphanumeric |-> FALSE]
      [] apiKey = ""          -> [sk |-> FALSE, length |-> 0, alphanumeric |-> TRUE]
      [] OTHER                -> [sk |-> FALSE, length |-> 10, alphanumeric |-> FALSE]

\* validateApiKey: /^sk-[a-zA-Z0-9]{48,}$/
validateApiKey(apiKey) ==
    /\ KeyShape(apiKey).sk
    /\ KeyShape(apiKey).alphanumeric
    /\ KeyShape(apiKey).length - 3 >= 48

\* Faulty variant: split(/\s/), every white space character separates two pieces
split_EachSpace(text) ==
    LET spaces   == { i \in 1 .. Len(text) : text[i] \in Whitespace }
        n        == Cardinality(spaces)
        pos(k)   == CHOOSE i \in spaces : Cardinality({ j \in spaces : j < i }) = k - 1
        start(k) == IF k = 1 THEN 1 ELSE pos(k - 1) + 1
        end(k)   == IF k = n + 1 THEN Len(text) ELSE pos(k) - 1
    IN  [ k \in 1 .. n + 1 |-> SubSeq(text, start(k), end(k)) ]

\* String.prototype.split(/\s+/): the pieces between runs of white space; a
\* text that starts or ends with white space yields an empty first or last piece
RECURSIVE split(_)
split(text) ==
    LET spaces == { i \in 1 .. Len(text) : text[i] \in Whitespace }
    IN  IF spaces = {} THEN << text >>
        ELSE LET first == CHOOSE i \in spaces : \A j \in spaces : i <= j
                 rest  == { i \in first .. Len(text) : text[i] \notin Whitespace }
                 next  == IF rest = {} THEN Len(text) + 1
                          ELSE CHOOSE i \in rest : \A j \in rest : i <= j
             IN  << SubSeq(text, 1, first - 1) >> \o split(SubSeq(text, next, Len(text)))

\* Faulty variant: the empty pieces are counted too
countWords_Unfiltered(text) == Len(split(text))

\* countWords: text.trim().split(/\s+/).filter(word => word.length > 0).length
countWords(text) ==
    LET nonEmpty(word) == Len(word) > 0
    IN  Len(SelectSeq(split(trim(text)), nonEmpty))

\* generateReply: the AiReply built from makeAPIRequest's content
\* (estimatedReadTime and generatedAt left out)
aiReply(content) == [content |-> content, wordCount |-> countWords(content)]

\* Faulty variant: the custom length is ignored
getTargetWordCount_NoCustom(customization) ==
    CASE customization.length = "small" -> 25
      [] customization.length = "large" -> 150
      [] OTHER -> 75

\* getTargetWordCount(customization); customLength || 75: 0 and undefined are falsy
getTargetWordCount(customization) ==
    CASE customization.length = "small"  -> 25
      [] customization.length = "medium" -> 75
      [] customization.length = "large"  -> 150
      [] customization.length = "custom" ->
           IF "customLength" \in DOMAIN customization /\ customization.customLength # 0
           THEN customization.customLength ELSE 75
      [] OTHER -> 75

CallIds  == 1 .. NumCalls
IdleCall == [kind |-> "none", pc |-> "idle", own |-> EmptyObject, arg |-> EmptyObject,
             current |-> EmptyObject, readAt |-> 0]

storeVars == << settings, history, last >>
genVars   == << genPc, attempt, requests, sleeps, lastError, outcomes, genResult >>
raceVars  == << calls, writes >>
pageVars  == << parsed, handlers, appends, onboarding, inflight >>
appVars   == << bg, web, ui, prompt, pageVars >>
vars      == << storeVars, genVars, raceVars, appVars >>

NoCall == [op |-> "none"]

\* BackgroundService with no GENERATE_REPLY request in hand and no answer
\* waiting to be taken
NoReply    == [content |-> NoContent]
NoMessage  == [type |-> "none"]
IdleBackground ==
    [ pc        |-> "idle",       \* handleGenerateReply: "idle", "getSettings", "generate",
                                  \* "addToHistory" (each an await), "done" (answered)
      data      |-> EmptyObject,  \* request.data
      settings  |-> EmptyObject,  \* const settings = await getSettings()
      reply     |-> NoReply,      \* const reply = await aiService.generateReply(...)
      before    |-> << >>,        \* the stored history when the handler's last step began
      added     |-> << >>,        \* the entries the handler has written to the history
      codes     |-> << >>,        \* the codes of the errors passed to ErrorHandler.handle
      outcome   |-> "none",       \* "completed" or "threw"
      responses |-> << >>,        \* the objects passed to sendResponse
      msg       |-> NoMessage ]   \* the other request last handled, with its responses

\* MemStorage as constructed, and no request answered yet
NoResponse == [route |-> "none"]
EmptyServer ==
    [ redditPosts |-> << >>,    \* the posts stored, in insertion order (id = position)
      aiReplies   |-> << >>,    \* the reply rows stored, in insertion order
      asked       |-> << >>,    \* for each row, the request it was created for
      last        |-> NoResponse ]  \* the request last answered: its status and body,
                                \* the completion calls it made, the rows stored before it

\* no prompt built yet
NoPrompt == [by |-> "none"]

\* the UI surfaces before any user action
IdleUI ==
    [ modal    |-> [ open |-> FALSE, id |-> 0,      \* the customization modal on the page
                     disabled |-> FALSE,            \* #modal-generate .disabled
                     loading |-> FALSE ],           \* #generate-loading displayed
      panel    |-> [ open |-> FALSE, id |-> 0,      \* this.uiContainer (null when closed)
                     view |-> "step1",              \* the block displayed: "step1" (content),
                                                    \* "step2" (customization), "step3" (reply),
                                                    \* "loading" or "error"
                     post |-> FALSE ],              \* this.currentPost is not null
      form     |-> [ pending |-> FALSE,             \* generateReplyMutation.isPending
                     step |-> "content" ],          \* currentStep, a post being fetched
      requests |-> << >>,                           \* the GENERATE_REPLY messages and POSTs
                                                    \* not yet answered: surface and instance
      last     |-> [event |-> "none"] ]             \* the handler that ran last and the
                                                    \* message it displayed ("none" if none)

\* The model runs this many GENERATE_REPLY handlers at once.
NumHandlers == 2
HandlerIds == 1 .. NumHandlers
IdleHandler ==
    [ pc |-> "idle",            \* the await the handler is at
      data |-> << >>,            \* request.data
      settings |-> << >>,        \* the settings handleGenerateReply read
      reply |-> NoReply,         \* the reply of aiService.generateReply
      read |-> << >>,            \* the history addToHistory read
      readAt |-> 0,              \* how many writes had landed at that read
      entry |-> << >>,           \* the ReplyHistory object handed to addToHistory
      outcome |-> "none" ]       \* "completed" (success: true) or "threw"

\* the onboarding page before its script has run
NoPage ==
    [ script |-> "none",        \* "onboarding.js" or "part_009": the script variant loaded
      currentStep |-> 1,
      apiKey |-> "",            \* the value of #apiKey
      disabled |-> FALSE,       \* nextButton.disabled
      timers |-> << >>,         \* the 300 ms transition timers pending: the step each
                                \* was set at
      tests |-> << >>,          \* the keys whose test request is in flight
      handed |-> {},            \* the keys passed to chrome.storage.sync.set
      stored |-> << >>,         \* chrome.storage.sync['replyGuyAI_settings']
      status |-> "none",        \* the message of #apiStatus
      last |-> [event |-> "none"] ]   \* the last event: the step it found, whether the
                                \* key passed validateApiKey, the timers it set

NoParse == [text |-> << >>, result |-> [null |-> TRUE], done |-> FALSE]

Init ==
    /\ settings = EmptyObject
    /\ history = << >>
    /\ last = NoCall
    /\ genPc = "idle"
    /\ attempt = 0
    /\ requests = 0
    /\ sleeps = << >>
    /\ lastError = NoError
    /\ outcomes = << >>
    /\ genResult = NoContent
    /\ calls = [c \in CallIds |-> IdleCall]
    /\ writes = << >>
    /\ bg = IdleBackground
    /\ web = EmptyServer
    /\ ui = IdleUI
    /\ prompt = NoPrompt
    /\ parsed = NoParse
    /\ handlers = [h \in HandlerIds |-> IdleHandler]
    /\ appends = << >>
    /\ onboarding = NoPage
    /\ inflight = << >>

(***************************************************************************)
(* Inputs the model draws from.                                            *)
(***************************************************************************)
\* request.data of UPDATE_SETTINGS: partial ExtensionSettings
SettingsUpdates ==
    {EmptyObject}
    \cup { [openaiApiKey |-> k] : k \in ApiKeys }
    \cup { [saveHistory |-> b] : b \in BOOLEAN }
    \cup { [darkMode |-> b] : b \in BOOLEAN }
    \cup { [autoDetectContext |-> b] : b \in BOOLEAN }
    \cup { [openaiApiKey |-> k, darkMode |-> b] : k \in ApiKeys, b \in BOOLEAN }
    \cup { [saveHistory |-> b, autoDetectContext |-> c] : b \in BOOLEAN, c \in BOOLEAN }

\* the settings of an import payload: a backup file, which may carry any key
\* (an export carries the redaction marker)
ImportedSettings ==
    {EmptyObject}
    \cup { [openaiApiKey |-> k] : k \in ApiKeys \cup {REDACTED} }
    \cup { [openaiApiKey |-> k, darkMode |-> b] : k \in ApiKeys \cup {REDACTED}, b \in BOOLEAN }
    \cup { [saveHistory |-> b, autoDetectContext |-> c] : b \in BOOLEAN, c \in BOOLEAN }

\* the history of an import payload: any list of no, one or two entries,
\* repeated ids included
RECURSIVE SeqsUpTo(_, _)
SeqsUpTo(S, n) ==
    IF n = 0 THEN { << >> }
    ELSE LET shorter == SeqsUpTo(S, n - 1)
         IN  shorter \cup { Append(q, e) : q \in { x \in shorter : Len(x) = n - 1 }, e \in S }

ImportedHistories == SeqsUpTo(Replies, 2)

\* payloads that carry settings only, history only, or both
SettingsImports ==
    { [settings |-> st] : st \in ImportedSettings }
    \cup { [settings |-> st, history |-> << >>] : st \in ImportedSettings }
HistoryImports ==
    {EmptyObject} \cup { [history |-> h] : h \in ImportedHistories }

\* what the user may have typed into the popup's api-key input
PopupInputs == ApiKeys \cup {CENSORED}

(***************************************************************************)
(* StorageService calls, each run to completion.                           *)
(***************************************************************************)
Completed(op, arg, result) ==
    /\ UNCHANGED << genVars, raceVars, appVars >>
    /\ last' = [op |-> op, arg |-> arg, pre |-> [settings |-> settings, history |-> history],
             result |-> result]

\* initialize(): defaults are written unless a key or a customization is stored
Initialize ==
    /\ last = NoCall
    /\ settings' =
         IF ~TruthyString(getSettings(settings), "openaiApiKey")
            /\ "defaultCustomization" \notin DOMAIN getSettings(settings)
         THEN updateSettings(settings, defaultSettings)
         ELSE settings
    /\ UNCHANGED history
    /\ Completed("initialize", EmptyObject, "ok")

UpdateSettings(partial) ==
    /\ last = NoCall
    /\ settings' = updateSettings(getSettings(settings), partial)
    /\ UNCHANGED history
    /\ Completed("updateSettings", partial, "ok")

UpdateDefaultCustomization(customization) ==
    /\ last = NoCall
    /\ settings' = updateSettings(getSettings(settings),
                                  updatedDefaultCustomization(getSettings(settings), customization))
    /\ UNCHANGED history
    /\ Completed("updateDefaultCustomization", customization, "ok")

PopupSaveSettings(input) ==
    /\ last = NoCall
    /\ settings' = updateSettings(getSettings(settings), popupSettings(input))
    /\ UNCHANGED history
    /\ Completed("saveSettings", input, "ok")

AddToHistory(reply) ==
    /\ last = NoCall
    /\ history' = IF TruthyBoolean(getSettings(settings), "saveHistory")
                  THEN addToHistory(history, reply)
                  ELSE history
    /\ UNCHANGED settings
    /\ Completed("addToHistory", reply, "ok")

RemoveFromHistory(replyId) ==
    /\ last = NoCall
    /\ history' = removeFromHistory(history, replyId)
    /\ UNCHANGED settings
    /\ Completed("removeFromHistory", replyId, "ok")

ClearHistory ==
    /\ last = NoCall
    /\ history' = << >>
    /\ UNCHANGED settings
    /\ Completed("clearHistory", EmptyObject, "ok")

ExportData(now) ==
    /\ last = NoCall
    /\ UNCHANGED << settings, history >>
    /\ Completed("exportData", EmptyObject, exportData(settings, history, now))

\* the caller's await resumes with the result
Resume ==
    /\ last # NoCall
    /\ last' = NoCall
    /\ UNCHANGED << settings, history, genVars, raceVars, appVars >>

ImportData(data) ==
    /\ last = NoCall
    /\ settings' = importSettings(settings, data)
    /\ history' = importHistory(history, data)
    /\ Completed("importData", data, "ok")

(***************************************************************************)
(* The reply history: the calls that read or write it.  A new reply's id   *)
(* is crypto.randomUUID(), so it is not the id of a stored entry.          *)
(***************************************************************************)
NextHistory ==
    \/ \E b \in BOOLEAN : UpdateSettings([saveHistory |-> b])
    \/ \E reply \in Replies :
          /\ reply.id \notin Ids(history)
          /\ AddToHistory(reply)
    \/ \E replyId \in ReplyIds : RemoveFromHistory(replyId)
    \/ ClearHistory
    \/ \E data \in HistoryImports :
          /\ last = NoCall
          /\ Len(importHistory(history, data)) <= MaxStored
          /\ ImportData(data)
    \/ Resume

SpecHistory == Init /\ [][NextHistory]_vars

(***************************************************************************)
(* The settings record: the calls that read or write it.                   *)
(***************************************************************************)
NextSettings ==
    \/ Initialize
    \/ \E partial \in SettingsUpdates : UpdateSettings(partial)
    \/ \E customization \in CustomizationUpdates : UpdateDefaultCustomization(customization)
    \/ \E input \in PopupInputs : PopupSaveSettings(input)
    \/ \E now \in Timestamps : ExportData(now)
    \/ \E data \in SettingsImports : ImportData(data)
    \/ Resume

SpecSettings == Init /\ [][NextSettings]_vars

(***************************************************************************)
(* AIService.generateReply and its retry loop, one step per await.         *)
(***************************************************************************)
\* generateReply(post, customization, apiKey), up to the first fetch: what
\* the call does to the service's own state
generateReplyCalled(apiKey) ==
    /\ genPc = "idle"
    /\ IF apiKey = ""
       THEN /\ genPc' = "threw"
            /\ lastError' = << "OpenAI API key is required" >>
            /\ attempt' = 0
       ELSE /\ genPc' = "fetch"
            /\ lastError' = NoError
            /\ attempt' = 1
    /\ requests' = 0
    /\ sleeps' = << >>
    /\ outcomes' = << >>
    /\ genResult' = NoContent

GenerateReply(apiKey) ==
    /\ generateReplyCalled(apiKey)
    /\ UNCHANGED << storeVars, raceVars, appVars >>

\* one pass of the loop body: the request of this attempt is made and settles
AttemptSettles(outcome) ==
    /\ genPc = "fetch"
    /\ attempt <= maxRetries
    /\ requests' = requests + 1
    /\ outcomes' = Append(outcomes, outcome)
    /\ LET error == attemptError(outcome) IN
       IF error = NoError
       THEN /\ genPc' = "returned"
            /\ genResult' = trim(outcome.content)
            /\ UNCHANGED << attempt, sleeps, lastError >>
       ELSE /\ lastError' = error
            /\ UNCHANGED genResult
            /\ IF shouldNotRetry(error)
               THEN /\ genPc' = "threw"
                    /\ UNCHANGED << attempt, sleeps >>
               ELSE IF attempt < maxRetries
                    THEN /\ genPc' = "sleep"
                         /\ sleeps' = Append(sleeps, backoffDelay(attempt))
                         /\ UNCHANGED attempt
                    ELSE /\ genPc' = "threw"
                         /\ attempt' = attempt + 1
                         /\ UNCHANGED sleeps
    /\ UNCHANGED << storeVars, raceVars, appVars >>

\* the backoff timer fires: attempt++
BackoffElapses ==
    /\ genPc = "sleep"
    /\ genPc' = "fetch"
    /\ attempt' = attempt + 1
    /\ UNCHANGED << requests, sleeps, lastError, outcomes, genResult, storeVars, raceVars, appVars >>

\* the caller takes the reply or the error: the call's state is dropped
generateReplySettled ==
    /\ genPc \in {"returned", "threw"}
    /\ genPc' = "idle"
    /\ attempt' = 0
    /\ requests' = 0
    /\ sleeps' = << >>
    /\ lastError' = NoError
    /\ outcomes' = << >>
    /\ genResult' = NoContent

GenerateReplyDone ==
    /\ generateReplySettled
    /\ UNCHANGED << storeVars, raceVars, appVars >>

NextGen ==
    \/ \E apiKey \in {"", "sk-A"} : GenerateReply(apiKey)
    \/ \E outcome \in Outcomes : AttemptSettles(outcome)
    \/ BackoffElapses
    \/ GenerateReplyDone

SpecGen == Init /\ [][NextGen]_vars

(***************************************************************************)
(* Overlapping settings updates: updateSettings and                        *)
(* updateDefaultCustomization, one step per await (chrome.storage get/set).*)
(***************************************************************************)
\* the partial settings the overlapping callers pass
RaceUpdates ==
    { [openaiApiKey |-> "sk-A"], [darkMode |-> TRUE],
      [saveHistory |-> FALSE], [openaiApiKey |-> "sk-B", darkMode |-> FALSE] }

\* Faulty variant: the write merges the partial into what is stored at the time of the write
settingsToStore_Fresh(stored, current, partial) == updateSettings(stored, partial)

\* updateSettings: the record handed to chrome.storage.sync.set, built from
\* the snapshot read before the await
settingsToStore(stored, current, partial) == updateSettings(current, partial)

\* updateSettings(partial) is called
CallUpdateSettings(c, partial) ==
    /\ calls[c].pc = "idle"
    /\ calls' = [calls EXCEPT ![c] =
                    [IdleCall EXCEPT !.kind = "updateSettings", !.own = partial,
                                     !.arg = partial, !.pc = "getSettings"]]
    /\ UNCHANGED << storeVars, genVars, writes, appVars >>

\* updateDefaultCustomization(customization) is called
CallUpdateDefaultCustomization(c, customization) ==
    /\ calls[c].pc = "idle"
    /\ calls' = [calls EXCEPT ![c] =
                    [IdleCall EXCEPT !.kind = "updateDefaultCustomization",
                                     !.own = customization, !.pc = "getSettings0"]]
    /\ UNCHANGED << storeVars, genVars, writes, appVars >>

\* updateDefaultCustomization: its getSettings resolves; updatedSettings is
\* built and updateSettings(updatedSettings) is entered
ReadForCustomization(c) ==
    /\ calls[c].pc = "getSettings0"
    /\ calls' = [calls EXCEPT ![c].arg = updatedDefaultCustomization(getSettings(settings),
                                                                      calls[c].own),
                              ![c].readAt = Len(writes),
                              ![c].pc = "getSettings"]
    /\ UNCHANGED << storeVars, genVars, writes, appVars >>

\* updateSettings: its getSettings resolves
ReadCurrent(c) ==
    /\ calls[c].pc = "getSettings"
    /\ calls' = [calls EXCEPT ![c].current = getSettings(settings),
                              ![c].readAt = Len(writes),
                              ![c].pc = "set"]
    /\ UNCHANGED << storeVars, genVars, writes, appVars >>

\* updateSettings: chrome.storage.sync.set stores the merged record
WriteSettings(c) ==
    /\ calls[c].pc = "set"
    /\ settings' = settingsToStore(settings, calls[c].current, calls[c].arg)
    /\ calls' = [calls EXCEPT ![c].pc = "done"]
    /\ writes' = Append(writes, c)
    /\ UNCHANGED << history, last, genVars, appVars >>

NoCallStarted == \A c \in CallIds : calls[c].pc = "idle"

NextRace ==
    \/ NoCallStarted /\ Initialize
    \/ NoCallStarted /\ Resume
    \/ \E c \in CallIds : \E partial \in RaceUpdates : CallUpdateSettings(c, partial)
    \/ \E c \in CallIds : \E customization \in CustomizationUpdates :
          CallUpdateDefaultCustomization(c, customization)
    \/ \E c \in CallIds : ReadForCustomization(c)
    \/ \E c \in CallIds : ReadCurrent(c)
    \/ \E c \in CallIds : WriteSettings(c)

SpecRace == Init /\ [][NextRace]_vars

(***************************************************************************)
(* BackgroundService.handleMessage: the requests other than GENERATE_REPLY,*)
(* each as the state it stores and the responses it sends.                 *)
(***************************************************************************)
QuotaExceeded == << "QUOTA_BYTES quota exceeded" >>

\* performHealthCheck(): testApiKey and healthCheck catch their own errors
performHealthCheck(storedSettings, env) ==
    [ apiKeyStatus |->
        IF ~TruthyString(getSettings(storedSettings), "openaiApiKey") THEN "not_configured"
        ELSE IF ~validateApiKey(getSettings(storedSettings).openaiApiKey) THEN "invalid_format"
        ELSE IF env.keyOk THEN "valid" ELSE "invalid",
      storageHealthy |-> env.storageOk ]

\* the cases of handleMessage's switch that answer after one service call
ServiceRequestTypes ==
    {"GET_STORED_SETTINGS", "UPDATE_SETTINGS", "GET_REPLY_HISTORY", "CLEAR_HISTORY",
     "EXPORT_DATA", "IMPORT_DATA", "HEALTH_CHECK", "TEST_API_KEY", "GET_STORAGE_STATS"}

\* handleMessage(request, sender, sendResponse), one of those cases.  env:
\* whether chrome.storage accepts a write (storageOk), whether the key test
\* passes (keyOk), the clock (now).
handleServiceRequest(request, storedSettings, storedHistory, env) ==
    LET completed(st, h, response) ==
            [ settings |-> st, history |-> h,
              responses |-> << response >>, outcome |-> "completed" ]
        threw(message) ==
            [ settings |-> storedSettings, history |-> storedHistory,
              responses |-> << [success |-> FALSE, error |-> handle(message).message] >>,
              outcome |-> "threw" ]
        read(value) == completed(storedSettings, storedHistory, [success |-> TRUE, data |-> value])
    IN  CASE request.type = "GET_STORED_SETTINGS" -> read(getSettings(storedSettings))
          [] request.type = "UPDATE_SETTINGS" ->
               IF env.storageOk
               THEN completed(updateSettings(getSettings(storedSettings), request.data),
                              storedHistory, [success |-> TRUE])
               ELSE threw(QuotaExceeded)
          [] request.type = "GET_REPLY_HISTORY" ->
               read(getReplyHistory(storedHistory,
                                    IF "data" \in DOMAIN request THEN request.data.limit ELSE 0))
          [] request.type = "CLEAR_HISTORY" ->
               IF env.storageOk
               THEN completed(storedSettings, << >>, [success |-> TRUE])
               ELSE threw(QuotaExceeded)
          [] request.type = "EXPORT_DATA" ->
               read(exportData(storedSettings, storedHistory, env.now))
          [] request.type = "IMPORT_DATA" ->
               IF env.storageOk
               THEN completed(importSettings(storedSettings, request.data),
                              importHistory(storedHistory, request.data), [success |-> TRUE])
               ELSE threw(QuotaExceeded)
          [] request.type = "HEALTH_CHECK" -> read(performHealthCheck(storedSettings, env))
          [] request.type = "TEST_API_KEY" ->
               IF "data" \in DOMAIN request
               THEN read([valid |-> env.keyOk])
               ELSE threw(<< "Cannot read properties of undefined (reading 'apiKey')" >>)
          [] request.type = "GET_STORAGE_STATS" ->
               read([historyCount |-> Len(getReplyHistory(storedHistory, 0))])

\* Faulty variant: the default case of the switch sends no response
handleMessage_SilentDefault(request, storedSettings, storedHistory, env) ==
    IF request.type \in ServiceRequestTypes
    THEN handleServiceRequest(request, storedSettings, storedHistory, env)
    ELSE [ settings |-> storedSettings, history |-> storedHistory,
           responses |-> << >>, outcome |-> "unknown" ]

\* handleMessage(request, sender, sendResponse) for every type but
\* GENERATE_REPLY: the state stored and the responses sent
handleMessage(request, storedSettings, storedHistory, env) ==
    IF request.type \in ServiceRequestTypes
    THEN handleServiceRequest(request, storedSettings, storedHistory, env)
    ELSE [ settings |-> storedSettings, history |-> storedHistory,
           responses |-> << [success |-> FALSE, error |-> "Unknown message type"] >>,
           outcome |-> "unknown" ]

(***************************************************************************)
(* BackgroundService.handleGenerateReply, one step per await.              *)
(***************************************************************************)
\* request.data of GENERATE_REPLY: the post and the customization
Posts ==
    { [id |-> "t3_1", title |-> "Test", subreddit |-> "test"],
      [id |-> "t1_2", title |-> "Reddit Comment", subreddit |-> "AskReddit"] }
ExtensionCustomizations ==
    { [direction |-> "be nice", length |-> "small", mood |-> "witty", tone |-> "neutral"],
      [direction |-> "", length |-> "custom", customLength |-> 120,
       mood |-> "custom", customMood |-> "dry", tone |-> "neutral"] }

\* the ReplyHistory object handleGenerateReply hands to addToHistory
historyEntry(id, data, reply, now) ==
    [ id            |-> id,
      postId        |-> data.post.id,
      postTitle     |-> data.post.title,
      reply         |-> reply.content,
      customization |-> data.customization,
      timestamp     |-> now,
      wordCount     |-> reply.wordCount,
      subreddit     |-> data.post.subreddit ]

\* Faulty variant: the entry is stored whatever saveHistory says
historyToStore_Always(stored, snapshot, current, entry) == addToHistory(stored, entry)

\* The history stored once the reply is generated: handleGenerateReply tests
\* the saveHistory of the settings it read before generating (snapshot), and
\* addToHistory tests the one stored when it runs (current).
historyToStore(stored, snapshot, current, entry) ==
    IF TruthyBoolean(snapshot, "saveHistory") /\ TruthyBoolean(current, "saveHistory")
    THEN addToHistory(stored, entry)
    ELSE stored

\* the handler throws: each catch on the way up passes the error to
\* ErrorHandler.handle, and handleMessage's answers with the sanitized message
Thrown(message, catches) ==
    [ bg EXCEPT !.pc = "done",
                !.outcome = "threw",
                !.before = history,
                !.codes = [i \in 1 .. catches |-> handle(message).code],
                !.responses = Append(@, [success |-> FALSE, error |-> handle(message).message]) ]

\* the handler returns the reply: handleMessage answers with it
Returned(reply, entries) ==
    [ bg EXCEPT !.pc = "done",
                !.outcome = "completed",
                !.before = history,
                !.reply = reply,
                !.added = entries,
                !.responses = Append(@, [success |-> TRUE, data |-> reply]) ]

\* handleMessage, case GENERATE_REPLY, up to the first await
ReceiveGenerateReply(data) ==
    /\ bg.pc = "idle" /\ bg.msg = NoMessage
    /\ genPc = "idle"
    /\ bg' = IF "post" \notin DOMAIN data
             THEN \* logger.info(..., data.post.id), before the try
                  [ Thrown(<< "Cannot read properties of undefined (reading 'id')" >>, 1)
                        EXCEPT !.data = data ]
             ELSE IF "customization" \notin DOMAIN data
             THEN [ Thrown(<< "Invalid request: missing post or customization data" >>, 2)
                        EXCEPT !.data = data ]
             ELSE [ bg EXCEPT !.pc = "getSettings", !.data = data ]
    /\ UNCHANGED << storeVars, genVars, raceVars, web, ui, prompt, pageVars >>

\* getSettings resolves: the key is tested and aiService.generateReply is called
SettingsRead ==
    /\ bg.pc = "getSettings" /\ bg.msg = NoMessage
    /\ LET read == getSettings(settings) IN
       IF ~TruthyString(read, "openaiApiKey")
       THEN /\ bg' = Thrown(<< "OpenAI API key not configured. Please set it in extension settings." >>, 2)
            /\ UNCHANGED genVars
       ELSE IF ~validateApiKey(read.openaiApiKey)
       THEN /\ bg' = Thrown(<< "Invalid OpenAI API key format. Please check your key in settings." >>, 2)
            /\ UNCHANGED genVars
       ELSE /\ bg' = [ bg EXCEPT !.pc = "generate", !.settings = read ]
            /\ generateReplyCalled(read.openaiApiKey)
    /\ UNCHANGED << storeVars, raceVars, web, ui, prompt, pageVars >>

\* aiService.generateReply resolves with the reply
ReplyGenerated ==
    /\ bg.pc = "generate" /\ bg.msg = NoMessage
    /\ genPc = "returned"
    /\ bg' = IF TruthyBoolean(bg.settings, "saveHistory")
             THEN [ bg EXCEPT !.pc = "addToHistory", !.reply = aiReply(genResult) ]
             ELSE Returned(aiReply(genResult), << >>)
    /\ generateReplySettled
    /\ UNCHANGED << storeVars, raceVars, web, ui, prompt, pageVars >>

\* aiService.generateReply rejects: its catch, handleGenerateReply's and
\* handleMessage's each handle the error
GenerationFailed ==
    /\ bg.pc = "generate" /\ bg.msg = NoMessage
    /\ genPc = "threw"
    /\ bg' = Thrown(lastError, 3)
    /\ generateReplySettled
    /\ UNCHANGED << storeVars, raceVars, web, ui, prompt, pageVars >>

\* addToHistory(entry) runs: id is crypto.randomUUID(), now the clock
HistorySaved(id, now, storageOk) ==
    /\ bg.pc = "addToHistory" /\ bg.msg = NoMessage
    /\ id \notin Ids(history)
    /\ LET entry  == historyEntry(id, bg.data, bg.reply, now)
           stored == historyToStore(history, bg.settings, getSettings(settings), entry)
       IN  IF stored = history
           THEN /\ bg' = Returned(bg.reply, << >>)
                /\ UNCHANGED history
           ELSE IF storageOk
           THEN /\ bg' = Returned(bg.reply, << entry >>)
                /\ history' = stored
           ELSE /\ bg' = Thrown(QuotaExceeded, 3)
                /\ UNCHANGED history
    /\ UNCHANGED << settings, last, genVars, raceVars, web, ui, prompt, pageVars >>

\* any other request is received and answered
MessageHandled(request, env) ==
    /\ bg.pc # "done" /\ bg.msg = NoMessage
    /\ LET handled == handleMessage(request, settings, history, env) IN
       /\ settings' = handled.settings
       /\ history' = handled.history
       /\ bg' = [ bg EXCEPT !.msg = [ type |-> request.type,
                                      outcome |-> handled.outcome,
                                      responses |-> handled.responses ] ]
    /\ UNCHANGED << last, genVars, raceVars, web, ui, prompt, pageVars >>

\* the sender takes the answer
ResponseDelivered ==
    /\ bg.pc = "done" \/ bg.msg # NoMessage
    /\ bg' = IF bg.msg # NoMessage THEN [ bg EXCEPT !.msg = NoMessage ] ELSE IdleBackground
    /\ UNCHANGED << storeVars, genVars, raceVars, web, ui, prompt, pageVars >>

\* crypto.randomUUID(): an id no stored entry has (the least one, ids being
\* compared for equality only)
FreshIds(stored) ==
    { id \in ReplyIds : id \notin Ids(stored) /\ \A other \in ReplyIds \ Ids(stored) : id <= other }

\* request.data of the GENERATE_REPLY requests: well-formed, or missing a part
GenerateRequests ==
    { [post |-> p, customization |-> c] : p \in Posts, c \in ExtensionCustomizations }
    \cup { EmptyObject } \cup { [post |-> p] : p \in Posts }
\* the other requests
SettingsRequests ==
    { [type |-> "UPDATE_SETTINGS", data |-> u] :
        u \in { [saveHistory |-> TRUE], [saveHistory |-> FALSE],
                [openaiApiKey |-> "sk-A"], [openaiApiKey |-> "sk-short"] } }
ServiceRequests ==
    { [type |-> t] : t \in {"GET_STORED_SETTINGS", "GET_REPLY_HISTORY", "CLEAR_HISTORY",
                            "EXPORT_DATA", "HEALTH_CHECK", "TEST_API_KEY",
                            "GET_STORAGE_STATS", "SHOW_REPLY_GENERATOR"} }
    \cup SettingsRequests
    \cup { [type |-> "GET_REPLY_HISTORY", data |-> [limit |-> 1]],
           [type |-> "TEST_API_KEY", data |-> [apiKey |-> "sk-A"]],
           [type |-> "IMPORT_DATA", data |-> [settings |-> [openaiApiKey |-> "sk-B", darkMode |-> TRUE]]] }
\* chrome.storage accepts writes or not, the key test passes or not, the clock
Environments ==
    { [storageOk |-> TRUE,  keyOk |-> TRUE,  now |-> 1],
      [storageOk |-> FALSE, keyOk |-> TRUE,  now |-> 2],
      [storageOk |-> TRUE,  keyOk |-> FALSE, now |-> 2] }
\* what an attempt of the generation receives
BackgroundOutcomes ==
    { [kind |-> "network", text |-> "Failed to fetch"],
      [kind |-> "http", status |-> 401, text |-> ""],
      [kind |-> "ok", content |-> << >>],
      [kind |-> "ok", content |-> << "w", " ", "w" >>] }

\* the steps that follow an await of the GENERATE_REPLY handler, the
\* attempts of the generation receiving one of these outcomes
HandlerSteps(received) ==
    \/ SettingsRead
    \/ \E outcome \in received : bg.msg = NoMessage /\ AttemptSettles(outcome)
    \/ bg.msg = NoMessage /\ BackoffElapses
    \/ ReplyGenerated
    \/ GenerationFailed
    \/ \E id \in FreshIds(history) : \E storageOk \in BOOLEAN : HistorySaved(id, 2, storageOk)

HandlerStep ==
    HandlerSteps({ [kind |-> "network", text |-> "Failed to fetch"],
                   [kind |-> "ok", content |-> << "w", " ", "w" >>] })

\* Every request type, with one well-formed GENERATE_REPLY request and the
\* malformed ones.
NextBackground ==
    \/ \E data \in GenerateRequests :
          /\ "customization" \in DOMAIN data => data.customization.length = "small"
          /\ "post" \in DOMAIN data => data.post.id = "t3_1"
          /\ ReceiveGenerateReply(data)
    \/ HandlerStep
    \/ \E request \in ServiceRequests : \E env \in Environments :
          /\ request.type = "UPDATE_SETTINGS" => request.data \in { [saveHistory |-> TRUE], [openaiApiKey |-> "sk-A"] }
          /\ MessageHandled(request, env)
    \/ ResponseDelivered

\* The event loop runs every continuation and every response callback that
\* is queued, and every fetch and timer settles.
SpecBackground ==
    /\ Init /\ [][NextBackground]_vars
    /\ SF_vars(HandlerStep) /\ WF_vars(ResponseDelivered)

\* Every GENERATE_REPLY request, while the settings are updated and the
\* history is cleared by other requests.
NextGenerate ==
    \/ \E data \in GenerateRequests : ReceiveGenerateReply(data)
    \/ HandlerSteps(BackgroundOutcomes)
    \/ \E request \in SettingsRequests \cup {[type |-> "CLEAR_HISTORY"]} :
          MessageHandled(request, [storageOk |-> TRUE, keyOk |-> TRUE, now |-> 1])
    \/ ResponseDelivered

SpecGenerate == Init /\ [][NextGenerate]_vars

(***************************************************************************)
(* Overlapping GENERATE_REPLY requests: handleGenerateReply and            *)
(* addToHistory, one step per await.  The listener starts a handler for    *)
(* each message as it arrives; a handler gives way at every await.         *)
(***************************************************************************)
\* Faulty variant: the entry is put in front of what is stored at the time of the write
historyWritten_Fresh(stored, read, entry) == addToHistory(stored, entry)

\* addToHistory: the array handed to chrome.storage.local.set is the one
\* getReplyHistory returned before the await, with the entry unshifted
historyWritten(stored, read, entry) == addToHistory(read, entry)

\* the handler's promise settles and handleMessage answers
Settled(h, outcome) == [handlers[h] EXCEPT !.pc = "done", !.outcome = outcome]

\* handleMessage, case GENERATE_REPLY, up to the first await
OverlapReceive(h, data) ==
    /\ handlers[h].pc = "idle"
    /\ handlers' = [handlers EXCEPT ![h] = [@ EXCEPT !.pc = "getSettings", !.data = data]]
    /\ UNCHANGED << storeVars, genVars, raceVars, bg, web, ui, prompt, parsed, appends, onboarding, inflight >>

\* getSettings resolves: the key is tested and aiService.generateReply is called
OverlapSettingsRead(h) ==
    /\ handlers[h].pc = "getSettings"
    /\ LET read == getSettings(settings) IN
       handlers' = [handlers EXCEPT ![h] =
                       IF ~TruthyString(read, "openaiApiKey") \/ ~validateApiKey(read.openaiApiKey)
                       THEN Settled(h, "threw")
                       ELSE [@ EXCEPT !.pc = "generate", !.settings = read]]
    /\ UNCHANGED << storeVars, genVars, raceVars, bg, web, ui, prompt, parsed, appends, onboarding, inflight >>

\* aiService.generateReply settles: with the reply, or rejecting
OverlapGenerated(h, content, ok) ==
    /\ handlers[h].pc = "generate"
    /\ handlers' = [handlers EXCEPT ![h] =
                       IF ~ok THEN Settled(h, "threw")
                       ELSE IF TruthyBoolean(handlers[h].settings, "saveHistory")
                       THEN [@ EXCEPT !.pc = "addToHistory", !.reply = aiReply(content)]
                       ELSE [Settled(h, "completed") EXCEPT !.reply = aiReply(content)]]
    /\ UNCHANGED << storeVars, genVars, raceVars, bg, web, ui, prompt, parsed, appends, onboarding, inflight >>

\* addToHistory: its getSettings resolves
OverlapAddSettingsRead(h, id, now) ==
    /\ handlers[h].pc = "addToHistory"
    /\ id \notin Ids(history) \cup { handlers[o].entry.id : o \in { x \in HandlerIds : handlers[x].entry # << >> } }
    /\ handlers' = [handlers EXCEPT ![h] =
                       IF ~TruthyBoolean(getSettings(settings), "saveHistory")
                       THEN Settled(h, "completed")
                       ELSE [@ EXCEPT !.pc = "getReplyHistory",
                                      !.entry = historyEntry(id, handlers[h].data,
                                                             handlers[h].reply, now)]]
    /\ UNCHANGED << storeVars, genVars, raceVars, bg, web, ui, prompt, parsed, appends, onboarding, inflight >>

\* addToHistory: its getReplyHistory resolves
OverlapHistoryRead(h) ==
    /\ handlers[h].pc = "getReplyHistory"
    /\ handlers' = [handlers EXCEPT ![h] = [@ EXCEPT !.pc = "set", !.read = history,
                                                     !.readAt = Len(appends)]]
    /\ UNCHANGED << storeVars, genVars, raceVars, bg, web, ui, prompt, parsed, appends, onboarding, inflight >>

\* addToHistory: chrome.storage.local.set stores the array, or rejects
OverlapHistoryWritten(h, storageOk) ==
    /\ handlers[h].pc = "set"
    /\ IF storageOk
       THEN /\ history' = historyWritten(history, handlers[h].read, handlers[h].entry)
            /\ appends' = Append(appends, h)
            /\ handlers' = [handlers EXCEPT ![h] = Settled(h, "completed")]
       ELSE /\ handlers' = [handlers EXCEPT ![h] = Settled(h, "threw")]
            /\ UNCHANGED << history, appends >>
    /\ UNCHANGED << settings, last, genVars, raceVars, bg, web, ui, prompt, parsed, onboarding, inflight >>

NoHandlerStarted == \A h \in HandlerIds : handlers[h].pc = "idle"

OverlapData ==
    { [post |-> p, customization |-> c] : p \in Posts, c \in ExtensionCustomizations }

\* The settings are stored first; then the requests arrive and their
\* handlers' continuations run in any order.
NextOverlap ==
    \/ \E request \in SettingsRequests :
          /\ NoHandlerStarted
          /\ MessageHandled(request, [storageOk |-> TRUE, keyOk |-> TRUE, now |-> 1])
    \/ NoHandlerStarted /\ ResponseDelivered
    \/ \E h \in HandlerIds : \E data \in OverlapData :
          /\ data.customization.length = "small"
          /\ data.post.id = IF h = 1 THEN "t3_1" ELSE "t1_2"
          /\ OverlapReceive(h, data)
    \/ \E h \in HandlerIds : OverlapSettingsRead(h)
    \/ \E h \in HandlerIds : \E ok \in BOOLEAN : OverlapGenerated(h, << "w", " ", "w" >>, ok)
    \/ \E h \in HandlerIds : \E id \in ReplyIds : OverlapAddSettingsRead(h, id, 2)
    \/ \E h \in HandlerIds : OverlapHistoryRead(h)
    \/ \E h \in HandlerIds : \E storageOk \in BOOLEAN : OverlapHistoryWritten(h, storageOk)

SpecOverlap == Init /\ [][NextOverlap]_vars

(***************************************************************************)
(* The onboarding page, in its two variants: onboarding.js, whose           *)
(* validateAndSaveApiKey is synchronous, and part_009, where it is async    *)
(* and tests the key first.  One step per event handler, timer or callback. *)
(***************************************************************************)
totalSteps == 3
\* The model lets at most this many transition timers be pending.
MaxTimers == 3

OnboardingKeys == { "", "sk-short", "sk-medium", "sk-proj", "sk-A" }

\* validateApiKey(): apiKey.length > 20 && apiKey.startsWith('sk-')
onboardingValidateApiKey(apiKey) == KeyShape(apiKey).length > 20 /\ KeyShape(apiKey).sk

\* validateApiKey() as the 'input' listener and validateAndSaveApiKey call
\* it: at step 2 the Next button follows the result
validated(page) ==
    IF page.currentStep = 2
    THEN [page EXCEPT !.disabled = ~onboardingValidateApiKey(page.apiKey)]
    ELSE page

\* the record chrome.storage.sync.set is given under 'replyGuyAI_settings'
onboardingSettings(apiKey) ==
    [ openaiApiKey |-> apiKey, saveHistory |-> TRUE, darkMode |-> FALSE,
      autoDetectContext |-> TRUE,
      defaultCustomization |-> [length |-> "medium", mood |-> "supportive", tone |-> "neutral"] ]

\* validateAndSaveApiKey(), up to its return or first await: the page and
\* the value nextStep receives.  onboarding.js calls chrome.storage.sync.set
\* and returns true (the callback shows the outcome later); part_009 is an
\* async function, so that nextStep receives a Promise.
validateAndSaveApiKey(page, storageOk) ==
    IF ~onboardingValidateApiKey(page.apiKey)
    THEN [ page |-> [validated(page) EXCEPT
                        !.status = "Please enter a valid OpenAI API key (starts with \"sk-\")"],
           returned |-> IF page.script = "part_009" THEN "Promise" ELSE "false" ]
    ELSE IF page.script = "part_009"
    THEN [ page |-> [validated(page) EXCEPT !.disabled = TRUE,
                                            !.tests = Append(@, page.apiKey)],
           returned |-> "Promise" ]
    ELSE [ page |-> [validated(page) EXCEPT
                        !.handed = @ \cup {page.apiKey},
                        !.stored = IF storageOk THEN onboardingSettings(page.apiKey) ELSE @,
                        !.status = IF storageOk THEN "API key saved successfully!"
                                   ELSE "Failed to save API key. Please try again."],
           returned |-> "true" ]

\* !value, of the values validateAndSaveApiKey gives nextStep
Falsy(value) == value = "false"

\* Faulty variant: a call made while a transition is pending sets no timer
nextStep_OneTransition(page, storageOk) ==
    LET saved == IF page.currentStep = 2
                 THEN validateAndSaveApiKey(page, storageOk)
                 ELSE [page |-> page, returned |-> "true"]
    IN IF page.currentStep = 2 /\ Falsy(saved.returned) THEN saved.page
       ELSE IF page.currentStep < totalSteps /\ page.timers = << >>
       THEN [saved.page EXCEPT !.timers = Append(@, page.currentStep)]
       ELSE saved.page

\* nextStep(): at step 2 the key is validated and saved first; below the
\* last step the transition timer is set, and currentStep++ runs when it
\* fires
nextStep(page, storageOk) ==
    LET saved == IF page.currentStep = 2
                 THEN validateAndSaveApiKey(page, storageOk)
                 ELSE [page |-> page, returned |-> "true"]
    IN IF page.currentStep = 2 /\ Falsy(saved.returned) THEN saved.page
       ELSE IF page.currentStep < totalSteps
       THEN [saved.page EXCEPT !.timers = Append(@, page.currentStep)]
       ELSE saved.page

\* what a user action did, for the properties
Acted(event, before, after) ==
    [ after EXCEPT !.last = [ event |-> event, from |-> before.currentStep,
                              passed |-> onboardingValidateApiKey(before.apiKey),
                              started |-> Len(after.timers) - Len(before.timers) ] ]

\* DOMContentLoaded: one of the two scripts runs
OnboardingLoaded(script) ==
    /\ onboarding.script = "none"
    /\ onboarding' = [onboarding EXCEPT !.script = script]
    /\ UNCHANGED << storeVars, genVars, raceVars, bg, web, ui, prompt, parsed, handlers, appends, inflight >>

\* 'input' on #apiKey, shown at step 2: validateApiKey
KeyTyped(apiKey) ==
    /\ onboarding.script # "none" /\ onboarding.currentStep = 2
    /\ onboarding' = Acted("input", onboarding, validated([onboarding EXCEPT !.apiKey = apiKey]))
    /\ UNCHANGED << storeVars, genVars, raceVars, bg, web, ui, prompt, parsed, handlers, appends, inflight >>

\* click on #nextButton (part_009 registers the listener; the button is
\* hidden at the last step and a disabled button receives no click)
NextClicked(storageOk) ==
    /\ onboarding.script = "part_009"
    /\ ~onboarding.disabled /\ onboarding.currentStep < totalSteps
    /\ Len(onboarding.timers) < MaxTimers
    /\ onboarding' = Acted("click", onboarding, nextStep(onboarding, storageOk))
    /\ UNCHANGED << storeVars, genVars, raceVars, bg, web, ui, prompt, parsed, handlers, appends, inflight >>

\* Enter is pressed: the document's keydown listener calls nextStep below
\* the last step, and with the focus in #apiKey the input's keypress
\* listener calls it again at step 2
EnterPressed(inInput, storageOk) ==
    /\ onboarding.script # "none"
    /\ inInput => onboarding.currentStep = 2
    /\ Len(onboarding.timers) + (IF inInput THEN 2 ELSE 1) <= MaxTimers
    /\ LET keydown == IF onboarding.currentStep < totalSteps
                      THEN nextStep(onboarding, storageOk) ELSE onboarding
           keypress == IF inInput /\ keydown.currentStep = 2
                       THEN nextStep(keydown, storageOk) ELSE keydown
       IN onboarding' = Acted("enter", onboarding, keypress)
    /\ UNCHANGED << storeVars, genVars, raceVars, bg, web, ui, prompt, parsed, handlers, appends, inflight >>

\* a transition timer fires: currentStep++, updateProgress, updateButtons
TimerFired ==
    /\ onboarding.timers # << >>
    /\ onboarding' = [onboarding EXCEPT
                         !.timers = Tail(@),
                         !.currentStep = @ + 1,
                         !.last = [ event |-> "advanced", from |-> onboarding.currentStep,
                                    passed |-> onboardingValidateApiKey(onboarding.apiKey),
                                    started |-> 0 ]]
    /\ UNCHANGED << storeVars, genVars, raceVars, bg, web, ui, prompt, parsed, handlers, appends, inflight >>

\* part_009: the test request of a key settles, and chrome.storage.sync.set
\* after it
KeyTested(ok, storageOk) ==
    /\ onboarding.tests # << >>
    /\ LET apiKey == Head(onboarding.tests)
           tested == [onboarding EXCEPT !.tests = Tail(@), !.disabled = FALSE]
       IN onboarding' =
             IF ~ok
             THEN [tested EXCEPT !.status =
                      "API key is invalid or has no access. Please check your key and try again."]
             ELSE IF ~storageOk
             THEN [tested EXCEPT !.handed = @ \cup {apiKey}, !.status =
                      "Failed to validate API key. Please check your internet connection and try again."]
             ELSE [tested EXCEPT !.handed = @ \cup {apiKey},
                                 !.stored = onboardingSettings(apiKey),
                                 !.status = "API key validated and saved successfully!"]
    /\ UNCHANGED << storeVars, genVars, raceVars, bg, web, ui, prompt, parsed, handlers, appends, inflight >>

NextOnboarding ==
    \/ \E script \in {"onboarding.js", "part_009"} : OnboardingLoaded(script)
    \/ \E apiKey \in OnboardingKeys : KeyTyped(apiKey)
    \/ \E storageOk \in BOOLEAN : NextClicked(storageOk)
    \/ \E inInput \in BOOLEAN : \E storageOk \in BOOLEAN : EnterPressed(inInput, storageOk)
    \/ TimerFired
    \/ \E ok \in BOOLEAN : \E storageOk \in BOOLEAN : KeyTested(ok, storageOk)

SpecOnboarding == Init /\ [][NextOnboarding]_vars

(***************************************************************************)
(* The web app's server: POST /api/reddit/fetch and POST /api/reply/generate*)
(* over MemStorage.                                                        *)
(***************************************************************************)
\* The model stores at most this many reply rows.
MaxReplies == 2

Urls == { "https://www.reddit.com/r/test/comments/1", "https://www.reddit.com/r/test/comments/2" }

\* req.body.customization of the web form
WebCustomizations ==
    { [direction |-> "be nice", length |-> "small", mood |-> "witty"],
      [direction |-> "be nice", length |-> "custom", customLength |-> 120,
       mood |-> "custom", customMood |-> "dry"],
      [direction |-> "", length |-> "medium", mood |-> "sad"] }

\* customizationSchema's limits of customLength
MinCustomLength == 5
MaxCustomLength == 500

\* generateReplySchema.parse(req.body) does not throw
parses(body) ==
    LET c == body.customization IN
    /\ body.redditUrl \in Urls
    /\ c.direction # ""
    /\ c.length \in {"small", "medium", "long", "custom"}
    /\ "customLength" \in DOMAIN c =>
          c.customLength >= MinCustomLength /\ c.customLength <= MaxCustomLength
    /\ c.mood \in {"witty", "comforting", "sad", "custom"}

\* getRedditPostByUrl: the first stored post with this url, NoPost if none
NoPost == [id |-> 0]
getRedditPostByUrl(server, url) ==
    LET found == { i \in 1 .. Len(server.redditPosts) : server.redditPosts[i].url = url }
    IN  IF found = {} THEN NoPost
        ELSE server.redditPosts[CHOOSE i \in found : \A j \in found : i <= j]

\* createRedditPost / createAiReply: { ...insert, id: current id ++ } (createdAt left out)
createRow(rows, insert) == Append(rows, Spread(insert, [id |-> Len(rows) + 1]))

\* Faulty variant: the custom length is ignored
webTargetWords_NoCustom(customization) ==
    CASE customization.length = "small" -> 20
      [] customization.length = "long"  -> 100
      [] OTHER -> 50

\* generateAIReply: targetWords; customLength || 50
webTargetWords(customization) ==
    CASE customization.length = "small"  -> 20
      [] customization.length = "medium" -> 50
      [] customization.length = "long"   -> 100
      [] customization.length = "custom" ->
           IF "customLength" \in DOMAIN customization /\ customization.customLength # 0
           THEN customization.customLength ELSE 50
      [] OTHER -> 50

\* customization.mood === 'custom' ? customization.customMood : customization.mood
webMood(customization) ==
    IF customization.mood = "custom"
    THEN IF "customMood" \in DOMAIN customization THEN customization.customMood ELSE "undefined"
    ELSE customization.mood

\* "Failed to generate reply", as characters
FallbackContent == << "w", " ", "w", " ", "w", " ", "w" >>

\* generateAIReply(post, customization) once the completion call has settled:
\* content?.trim() || fallback, and content.split(/\s+/).length
generateAIReply(customization, completion) ==
    IF completion.kind # "ok"
    THEN [ threw |-> TRUE, message |-> "Failed to generate AI reply. Please try again." ]
    ELSE LET trimmed == IF completion.content = NoContent THEN << >>
                        ELSE trim(completion.content)
             content == IF trimmed = << >> THEN FallbackContent ELSE trimmed
         IN  [ threw |-> FALSE, content |-> content, wordCount |-> Len(split(content)) ]

\* the row POST /api/reply/generate hands to createAiReply
insertReply(post, customization, generated) ==
    [ postId    |-> post.id,
      content   |-> generated.content,
      direction |-> customization.direction,
      mood      |-> webMood(customization),
      length    |-> customization.length,
      wordCount |-> generated.wordCount ]

\* Faulty variant: a row is stored before the completion call, whose failure
\* leaves it behind
generateReplyRoute_StoreFirst(server, body, completion) ==
    IF ~parses(body)
    THEN [ server |-> server, status |-> 500, calls |-> 0,
           body |-> [message |-> "Direction is required"] ]
    ELSE LET post == getRedditPostByUrl(server, body.redditUrl) IN
         IF post = NoPost
         THEN [ server |-> server, status |-> 404, calls |-> 0,
                body |-> [message |-> "Reddit post not found. Please fetch it first."] ]
         ELSE LET generated == generateAIReply(body.customization, completion)
                  pending   == [content |-> << >>, wordCount |-> 0]
                  rows      == createRow(server.aiReplies,
                                 insertReply(post, body.customization,
                                             IF generated.threw THEN pending ELSE generated))
              IN  IF generated.threw
                  THEN [ server |-> [server EXCEPT !.aiReplies = rows],
                         status |-> 500, calls |-> 1,
                         body |-> [message |-> generated.message] ]
                  ELSE [ server |-> [server EXCEPT !.aiReplies = rows],
                         status |-> 200, calls |-> 1, body |-> rows[Len(rows)] ]

\* POST /api/reply/generate: the storage it leaves, the status and body it
\* answers with, and the number of completion calls it made
generateReplyRoute(server, body, completion) ==
    IF ~parses(body)
    THEN [ server |-> server, status |-> 500, calls |-> 0,
           body |-> [message |-> "Direction is required"] ]
    ELSE LET post == getRedditPostByUrl(server, body.redditUrl) IN
         IF post = NoPost
         THEN [ server |-> server, status |-> 404, calls |-> 0,
                body |-> [message |-> "Reddit post not found. Please fetch it first."] ]
         ELSE LET generated == generateAIReply(body.customization, completion) IN
              IF generated.threw
              THEN [ server |-> server, status |-> 500, calls |-> 1,
                     body |-> [message |-> generated.message] ]
              ELSE LET rows == createRow(server.aiReplies,
                                         insertReply(post, body.customization, generated))
                   IN  [ server |-> [server EXCEPT !.aiReplies = rows],
                         status |-> 200, calls |-> 1, body |-> rows[Len(rows)] ]

\* POST /api/reddit/fetch: the stored post is returned, or the fetched one is stored
FetchPost(url, fetched) ==
    /\ web' = IF getRedditPostByUrl(web, url) # NoPost
              THEN [ web EXCEPT !.last = [route |-> "fetch", status |-> 200] ]
              ELSE IF fetched
              THEN [ web EXCEPT !.redditPosts = createRow(@, [url |-> url, title |-> "Test"]),
                                !.last = [route |-> "fetch", status |-> 200] ]
              ELSE [ web EXCEPT !.last = [route |-> "fetch", status |-> 400] ]
    /\ UNCHANGED << storeVars, genVars, raceVars, bg, ui, prompt, pageVars >>

\* POST /api/reply/generate is received and answered
WebGenerate(body, completion) ==
    /\ Len(web.aiReplies) < MaxReplies
    /\ LET answered == generateReplyRoute(web, body, completion)
       IN  web' = [ answered.server EXCEPT
                      !.asked = IF answered.status = 200
                                THEN Append(@, body) ELSE @,
                      !.last = [ route |-> "generate", status |-> answered.status,
                                 body |-> answered.body, calls |-> answered.calls,
                                 before |-> web.aiReplies ] ]
    /\ UNCHANGED << storeVars, genVars, raceVars, bg, ui, prompt, pageVars >>

\* the bodies and the completions the server receives
WebBodies == [ redditUrl : Urls, customization : WebCustomizations ]
WebCompletions ==
    { [kind |-> "error"], [kind |-> "ok", content |-> NoContent],
      [kind |-> "ok", content |-> << " ", "w", " ", "w", "\n" >>] }

NextWeb ==
    \/ \E url \in Urls : \E fetched \in BOOLEAN : FetchPost(url, fetched)
    \/ \E body \in WebBodies : \E completion \in WebCompletions : WebGenerate(body, completion)

\* handleRegenerate: the customization home.tsx rebuilds from the reply row
\* it displays (generatedReply)
handleRegenerate(generatedReply) ==
    [ direction |-> IF TruthyString(generatedReply, "direction")
                    THEN generatedReply.direction ELSE "",
      length    |-> IF TruthyString(generatedReply, "length")
                    THEN generatedReply.length ELSE "medium",
      mood      |-> IF TruthyString(generatedReply, "mood")
                    THEN generatedReply.mood ELSE "comforting" ]

\* the regenerate button, with the reply of the last request displayed:
\* generateReplyMutation.mutate({ redditUrl: fetchedPost.url, customization })
\* and the route's answer
WebRegenerate(completion) ==
    /\ web.last.route \in {"generate", "regenerate"} /\ web.last.status = 200
    /\ Len(web.aiReplies) < MaxReplies
    /\ LET original == web.asked[Len(web.asked)]
           body == [ redditUrl |-> original.redditUrl,
                     customization |-> handleRegenerate(web.last.body) ]
           answered == generateReplyRoute(web, body, completion)
       IN  web' = [ answered.server EXCEPT
                      !.asked = IF answered.status = 200
                                THEN Append(@, body) ELSE @,
                      !.last = [ route |-> "regenerate", status |-> answered.status,
                                 body |-> answered.body, calls |-> answered.calls,
                                 before |-> web.aiReplies,
                                 original |-> original, request |-> body ] ]
    /\ UNCHANGED << storeVars, genVars, raceVars, bg, ui, prompt, pageVars >>

\* The web app: posts are fetched, replies generated and regenerated.
NextRegenerate ==
    \/ NextWeb
    \/ \E completion \in WebCompletions : WebRegenerate(completion)

SpecRegenerate == Init /\ [][NextRegenerate]_vars

\* The model stores at most this many posts and lets at most this many
\* fetch requests wait for Reddit at once.
MaxPosts == 3
MaxInflight == 2

\* POST /api/reddit/fetch after fetchRedditContent: createRedditPost, with no
\* second look at the stored posts
storeFetched(posts, url) == createRow(posts, [url |-> url, title |-> "Test"])

\* POST /api/reddit/fetch up to its second await: the stored post is
\* answered, or fetchRedditContent(url) is called
FetchReceived(url) ==
    /\ Len(inflight) < MaxInflight
    /\ IF getRedditPostByUrl(web, url) # NoPost
       THEN /\ web' = [ web EXCEPT !.last = [route |-> "fetch", status |-> 200] ]
            /\ UNCHANGED inflight
       ELSE /\ inflight' = Append(inflight, url)
            /\ web' = [ web EXCEPT !.last = [route |-> "fetch", status |-> 0] ]
    /\ UNCHANGED << storeVars, genVars, raceVars, bg, ui, prompt, parsed, handlers, appends, onboarding >>

\* fetchRedditContent settles for a request: the post is stored and
\* answered, or the error is answered with 400
FetchSettled(i, fetched) ==
    /\ i \in 1 .. Len(inflight)
    /\ fetched => Len(web.redditPosts) < MaxPosts
    /\ inflight' = SubSeq(inflight, 1, i - 1) \o SubSeq(inflight, i + 1, Len(inflight))
    /\ web' = IF fetched
              THEN [ web EXCEPT !.redditPosts = storeFetched(@, inflight[i]),
                                !.last = [route |-> "fetch", status |-> 200] ]
              ELSE [ web EXCEPT !.last = [route |-> "fetch", status |-> 400] ]
    /\ UNCHANGED << storeVars, genVars, raceVars, bg, ui, prompt, parsed, handlers, appends, onboarding >>

\* POST /api/reddit/manual: the stored post is answered or the entered one
\* stored.  Both awaits are of MemStorage promises that are already
\* resolved, so the handler's continuations run before any other handler.
ManualSubmitted(url) ==
    /\ Len(web.redditPosts) < MaxPosts
    /\ web' = IF getRedditPostByUrl(web, url) # NoPost
              THEN [ web EXCEPT !.last = [route |-> "manual", status |-> 200] ]
              ELSE [ web EXCEPT !.redditPosts = createRow(@, [url |-> url, title |-> "Test"]),
                                !.last = [route |-> "manual", status |-> 200] ]
    /\ UNCHANGED << storeVars, genVars, raceVars, bg, ui, prompt, pageVars >>

NextFetch ==
    \/ \E url \in Urls : FetchReceived(url)
    \/ \E i \in 1 .. MaxInflight : \E fetched \in BOOLEAN : FetchSettled(i, fetched)
    \/ \E url \in Urls : ManualSubmitted(url)

SpecFetch == Init /\ [][NextFetch]_vars

\* neither program has run yet
ExtensionIdle == bg = IdleBackground /\ settings = EmptyObject /\ history = << >>
ServerIdle == web = EmptyServer

\* The extension and the web app share no state, so their steps commute:
\* each is explored from the other's initial state.
NextApp ==
    \/ ServerIdle /\ NextGenerate
    \/ ExtensionIdle /\ NextWeb

SpecApp == Init /\ [][NextApp]_vars

(***************************************************************************)
(* The UI surfaces: the content script's customization modal and popup     *)
(* panel, and the web app's form.  One step per event handler or response. *)
(***************************************************************************)
\* The model opens at most this many modals and as many panels, and leaves
\* at most MaxPending requests unanswered.
MaxInstances == 2
MaxPending == 2

\* showStep(n) / showLoading() / showReply(reply): every query goes through
\* this.uiContainer?., so nothing changes when the panel is closed
showView(panel, view) == IF panel.open THEN [panel EXCEPT !.view = view] ELSE panel

\* Faulty variant: the loading block stays displayed
showError_LoadingStays(panel) == panel

\* showError(message): the steps and the loading block are hidden, the error
\* block with its retry button is displayed
showError(panel) == showView(panel, "error")

\* what a handler did, as the next state of ui
Handled(surface, event, instance, message, changed) ==
    [ changed EXCEPT !.last = [ event |-> event, surface |-> surface,
                                instance |-> instance, message |-> message,
                                response |-> "none" ] ]

Unanswered(surface, instance) == [surface |-> surface, instance |-> instance]

\* showReplyModal(textbox): extraction, then the modal (the overlay of an
\* open modal covers the page)
ShowReplyModal(extracted) ==
    /\ ~ui.modal.open /\ ui.modal.id < MaxInstances
    /\ ui' = IF ~extracted
             THEN Handled("modal", "extractionFailed", ui.modal.id, "none",
                          [ui EXCEPT !.panel.post = FALSE])
             ELSE Handled("modal", "opened", ui.modal.id + 1, "none",
                          [ui EXCEPT !.panel.post = TRUE,
                                     !.modal = [ open |-> TRUE, id |-> ui.modal.id + 1,
                                                 disabled |-> FALSE, loading |-> FALSE ]])
    /\ UNCHANGED << storeVars, genVars, raceVars, bg, web, prompt, pageVars >>

\* click on #modal-generate: generateReplyFromModal up to its await
ModalGenerate ==
    /\ ui.modal.open /\ ~ui.modal.disabled
    /\ Len(ui.requests) < MaxPending
    /\ ui' = Handled("modal", "requested", ui.modal.id, "none",
                     [ui EXCEPT !.modal.disabled = TRUE, !.modal.loading = TRUE,
                                !.requests = Append(@, Unanswered("modal", ui.modal.id))])
    /\ UNCHANGED << storeVars, genVars, raceVars, bg, web, prompt, pageVars >>

\* #modal-cancel, Escape or a click on the overlay: the overlay is removed
ModalClose ==
    /\ ui.modal.open
    /\ ui' = Handled("modal", "closed", ui.modal.id, "none",
                     [ui EXCEPT !.modal.open = FALSE, !.modal.loading = FALSE])
    /\ UNCHANGED << storeVars, genVars, raceVars, bg, web, prompt, pageVars >>

\* The response handleMessage sends for GENERATE_REPLY, as the fields the
\* modal reads: { success: true, data: reply } or { success: false, error }
generateReplyResponse(success) ==
    IF success THEN [success |-> TRUE, data |-> "reply"]
               ELSE [success |-> FALSE, error |-> "error"]

\* generateReplyFromModal / generateHelpWriteReply after the await: with
\* response.success the reply text is read as response.reply.content and
\* inserted, the overlay removed; reading .content of a missing
\* response.reply is a TypeError, thrown inside the try
modalOutcome(response) ==
    IF ~response.success THEN "threw"
    ELSE IF "reply" \in DOMAIN response THEN "inserted"
    ELSE "threw"

\* generateReplyFromModal after its await.  A throw reaches the catch, which
\* restores the button of the modal the request was made from and alerts.
ModalResponse(i, success) ==
    /\ i \in 1 .. Len(ui.requests) /\ ui.requests[i].surface = "modal"
    /\ LET own == ui.modal.id = ui.requests[i].instance
           response == generateReplyResponse(success)
           answered == [ui EXCEPT !.requests = SubSeq(@, 1, i - 1) \o SubSeq(@, i + 1, Len(@))]
           handled ==
              IF modalOutcome(response) = "inserted"
              THEN Handled("modal", "inserted", ui.requests[i].instance, "none",
                           [answered EXCEPT !.modal.open = IF own THEN FALSE ELSE @])
              ELSE Handled("modal", "failed", ui.requests[i].instance,
                           "Failed to generate reply. Please check your API key in the extension settings.",
                           [answered EXCEPT !.modal.disabled = IF own THEN FALSE ELSE @,
                                            !.modal.loading = IF own THEN FALSE ELSE @])
       IN ui' = [handled EXCEPT !.last.response = IF success THEN "success" ELSE "failure"]
    /\ UNCHANGED << storeVars, genVars, raceVars, bg, web, prompt, pageVars >>

\* handleReplyButtonClick(element): extraction, then showReplyPopup, which
\* replaces the panel by a new one at step 1
HandleReplyButtonClick(extracted) ==
    /\ ui.panel.id < MaxInstances
    /\ ui' = IF ~extracted
             THEN Handled("panel", "extractionFailed", ui.panel.id, "none",
                          [ui EXCEPT !.panel.post = FALSE])
             ELSE Handled("panel", "opened", ui.panel.id + 1, "none",
                          [ui EXCEPT !.panel = [ open |-> TRUE, id |-> ui.panel.id + 1,
                                                 view |-> "step1", post |-> TRUE ]])
    /\ UNCHANGED << storeVars, genVars, raceVars, bg, web, prompt, pageVars >>

\* click on #rai-detect-content: detectContent
DetectContent(extracted) ==
    /\ ui.panel.open /\ ui.panel.view = "step1"
    /\ ui' = IF ~extracted
             THEN Handled("panel", "extractionFailed", ui.panel.id,
                          "Could not extract content from this page. Make sure you're on a Reddit post or comment.",
                          [ui EXCEPT !.panel = showError([@ EXCEPT !.post = FALSE])])
             ELSE Handled("panel", "detected", ui.panel.id, "none",
                          [ui EXCEPT !.panel.post = TRUE])
    /\ UNCHANGED << storeVars, genVars, raceVars, bg, web, prompt, pageVars >>

\* #rai-proceed, #rai-back, #rai-new: showStep
PanelNavigate(to) ==
    /\ ui.panel.open
    /\ \/ ui.panel.view = "step1" /\ to = "step2"
       \/ ui.panel.view = "step2" /\ to = "step1"
       \/ ui.panel.view = "step3" /\ to = "step1"
    /\ ui' = Handled("panel", "navigated", ui.panel.id, "none",
                     [ui EXCEPT !.panel = showView([@ EXCEPT !.post =
                                    IF ui.panel.view = "step3" THEN FALSE ELSE @], to)])
    /\ UNCHANGED << storeVars, genVars, raceVars, bg, web, prompt, pageVars >>

\* .rai-close: the panel is removed and this.uiContainer = null
PanelClose ==
    /\ ui.panel.open
    /\ ui' = Handled("panel", "closed", ui.panel.id, "none", [ui EXCEPT !.panel.open = FALSE])
    /\ UNCHANGED << storeVars, genVars, raceVars, bg, web, prompt, pageVars >>

\* #rai-generate (step 2), #rai-regenerate (step 3), #rai-retry (error):
\* generateReply up to its await
PanelGenerate ==
    /\ ui.panel.open /\ ui.panel.view \in {"step2", "step3", "error"}
    /\ Len(ui.requests) < MaxPending
    /\ ui' = IF ~ui.panel.post
             THEN Handled("panel", "failed", ui.panel.id,
                          "No content detected. Please analyze content first.",
                          [ui EXCEPT !.panel = showError(@)])
             ELSE Handled("panel", "requested", ui.panel.id, "none",
                          [ui EXCEPT !.panel = showView(@, "loading"),
                                     !.requests = Append(@, Unanswered("panel", ui.panel.id))])
    /\ UNCHANGED << storeVars, genVars, raceVars, bg, web, prompt, pageVars >>

\* generateReply after its await: showReply or showError, on the panel that
\* this.uiContainer is by then
PanelResponse(i, success) ==
    /\ i \in 1 .. Len(ui.requests) /\ ui.requests[i].surface = "panel"
    /\ LET answered == [ui EXCEPT !.requests = SubSeq(@, 1, i - 1) \o SubSeq(@, i + 1, Len(@))] IN
       ui' = IF success
             THEN Handled("panel", "replied", ui.requests[i].instance, "none",
                          [answered EXCEPT !.panel = showView(@, "step3")])
             ELSE Handled("panel", "failed", ui.requests[i].instance,
                          "An unexpected error occurred. Please try again or contact support if the issue persists.",
                          [answered EXCEPT !.panel = showError(@)])
    /\ UNCHANGED << storeVars, genVars, raceVars, bg, web, prompt, pageVars >>

\* the web form: the submit button of CustomizationPanel (step "content") or
\* the regenerate button (step "response"); while the mutation is pending the
\* submit button is disabled and the processing overlay covers the page
FormGenerate ==
    /\ ~ui.form.pending
    /\ Len(ui.requests) < MaxPending
    /\ ui' = Handled("form", "requested", 0, "none",
                     [ui EXCEPT !.form.pending = TRUE,
                                !.requests = Append(@, Unanswered("form", 0))])
    /\ UNCHANGED << storeVars, genVars, raceVars, bg, web, prompt, pageVars >>

\* apiRequest: a response that is not 2xx is thrown as an Error
apiRequest(status) == IF status = 200 THEN "resolved" ELSE "rejected"

\* generateReplyMutation settles: onSuccess shows the reply, onError a toast
FormResponse(i, status) ==
    /\ i \in 1 .. Len(ui.requests) /\ ui.requests[i].surface = "form"
    /\ LET answered == [ui EXCEPT !.requests = SubSeq(@, 1, i - 1) \o SubSeq(@, i + 1, Len(@)),
                                  !.form.pending = FALSE] IN
       ui' = IF apiRequest(status) = "resolved"
             THEN Handled("form", "replied", 0, "Reply generated",
                          [answered EXCEPT !.form.step = "response"])
             ELSE Handled("form", "failed", 0, "Failed to generate reply", answered)
    /\ UNCHANGED << storeVars, genVars, raceVars, bg, web, prompt, pageVars >>

\* the message contextMenus.onClicked sends to the tab for the item
\* 'replyguy-ai-generate' ("Generate AI Reply")
contextMenuMessage == [type |-> "SHOW_REPLY_GENERATOR"]

\* RedditReplyAI.handleMessage(request): the response passed to sendResponse
\* and whether showHelpWriteModal is called
RedditReplyAI_handleMessage(request) ==
    IF request.type = "SHOW_HELP_WRITE_MODAL"
    THEN [success |-> TRUE, error |-> "none", shows |-> TRUE]
    ELSE [success |-> FALSE, error |-> "Unknown message type", shows |-> FALSE]

\* A click on the context-menu item over a textbox: the background sends its
\* message to the tab and the content script's listener answers it.
\* showHelpWriteModal opens its modal if the right-clicked textbox is known
\* and the conversation context is extracted.
ContextMenuClicked(textbox, extracted) ==
    /\ ~ui.modal.open /\ ui.modal.id < MaxInstances
    /\ LET answer == RedditReplyAI_handleMessage(contextMenuMessage)
           shown == answer.shows /\ textbox /\ extracted
           handled ==
              IF shown
              THEN Handled("page", "menuClicked", ui.modal.id + 1, "none",
                           [ui EXCEPT !.panel.post = TRUE,
                                      !.modal = [ open |-> TRUE, id |-> ui.modal.id + 1,
                                                  disabled |-> FALSE, loading |-> FALSE ]])
              ELSE Handled("page", "menuClicked", ui.modal.id, "none", ui)
       IN ui' = [handled EXCEPT !.last.response =
                                   IF answer.success THEN "success" ELSE answer.error]
    /\ UNCHANGED << storeVars, genVars, raceVars, bg, web, prompt, pageVars >>

\* a request is answered
Responds ==
    \E i \in 1 .. MaxPending :
       \/ \E success \in BOOLEAN : ModalResponse(i, success)
       \/ \E success \in BOOLEAN : PanelResponse(i, success)
       \/ \E status \in {200, 404, 500} : FormResponse(i, status)

\* The surfaces share only this.currentPost: each is explored while the
\* others have not been used.
ModalUnused == ui.modal = IdleUI.modal
PanelUnused == ui.panel.id = 0
FormUnused  == ui.form = IdleUI.form

NextUI ==
    \/ \E extracted \in BOOLEAN : PanelUnused /\ FormUnused /\ ShowReplyModal(extracted)
    \/ ModalGenerate
    \/ ModalClose
    \/ \E textbox \in BOOLEAN : \E extracted \in BOOLEAN :
          PanelUnused /\ FormUnused /\ ContextMenuClicked(textbox, extracted)
    \/ \E extracted \in BOOLEAN : ModalUnused /\ FormUnused /\ HandleReplyButtonClick(extracted)
    \/ \E extracted \in BOOLEAN : DetectContent(extracted)
    \/ \E to \in {"step1", "step2"} : PanelNavigate(to)
    \/ PanelClose
    \/ PanelGenerate
    \/ ModalUnused /\ PanelUnused /\ FormGenerate
    \/ Responds

\* Every request is answered in the end: every network call settles.
SpecUI == Init /\ [][NextUI]_vars /\ WF_vars(Responds)

(***************************************************************************)
(* RedditExtractor.parseNumber, applied to the text of a score or comment  *)
(* count element.  A text is a sequence of characters.                     *)
(***************************************************************************)
\* The model parses every text of at most this many characters.
MaxParseLen == 4

Digits == << "0", "1", "2", "3", "4", "5", "6", "7", "8", "9" >>
IsDigit(c) == \E d \in 1 .. Len(Digits) : Digits[d] = c
DigitValue(c) == (CHOOSE d \in 1 .. Len(Digits) : Digits[d] = c) - 1

\* the characters of the short texts
ParseChars == { "0", "1", "2", ".", "k", "M", "m", " " }

\* texts of elements of the page, as old and new Reddit render them
PageTexts ==
    { << "1", "2", " ", "c", "o", "m", "m", "e", "n", "t", "s" >>,
      << "3", " ", "p", "o", "i", "n", "t", "s" >>,
      << "1", ".", "2", "k", " ", "u", "p", "v", "o", "t", "e", "s" >>,
      << "V", "o", "t", "e" >> }

ParseTexts == UNION { [1 .. n -> ParseChars] : n \in 0 .. MaxParseLen } \cup PageTexts

RECURSIVE DecimalValue(_)
\* the number a sequence of digits writes
DecimalValue(digits) ==
    IF digits = << >> THEN 0
    ELSE 10 * DecimalValue(SubSeq(digits, 1, Len(digits) - 1)) + DigitValue(digits[Len(digits)])

RECURSIVE Power10(_)
Power10(n) == IF n = 0 THEN 1 ELSE 10 * Power10(n - 1)

\* the length of the longest prefix of digits
LeadingDigits(text) ==
    CHOOSE n \in 0 .. Len(text) :
        /\ \A i \in 1 .. n : IsDigit(text[i])
        /\ n = Len(text) \/ ~IsDigit(text[n + 1])

NaN == [nan |-> TRUE]

\* parseFloat(string): the longest prefix that is a decimal literal (digits,
\* then at most one point and digits), as mantissa / 10^decimals; NaN when
\* that prefix holds no digit
parseFloat(text) ==
    LET whole == LeadingDigits(text)
        rest == SubSeq(text, whole + 1, Len(text))
        fraction == IF rest # << >> /\ rest[1] = "." THEN LeadingDigits(Tail(rest)) ELSE 0
    IN IF whole + fraction = 0 THEN NaN
       ELSE [ nan |-> FALSE,
              mantissa |-> DecimalValue(SubSeq(text, 1, whole) \o SubSeq(rest, 2, fraction + 1)),
              decimals |-> fraction ]

\* Math.round(num * factor), of a number that is not negative
round(num, factor) ==
    (2 * num.mantissa * factor + Power10(num.decimals)) \div (2 * Power10(num.decimals))

\* text.replace(/[^\d.kKmM]/g, '')
cleaned(text) == SelectSeq(text, LAMBDA c : IsDigit(c) \/ c \in { ".", "k", "K", "m", "M" })

\* string.toLowerCase().includes(letter), letter being lower case
includesLower(text, letter) ==
    \E i \in 1 .. Len(text) :
        text[i] = letter \/ (letter = "k" /\ text[i] = "K") \/ (letter = "m" /\ text[i] = "M")

null == [null |-> TRUE]
Number(n) == [null |-> FALSE, value |-> n]

\* parseNumber(text)
parseNumber(text) ==
    IF cleaned(text) = << >> THEN null
    ELSE LET num == parseFloat(cleaned(text)) IN
         IF num.nan THEN null
         ELSE IF includesLower(cleaned(text), "k") THEN Number(round(num, 1000))
         ELSE IF includesLower(cleaned(text), "m") THEN Number(round(num, 1000000))
         ELSE Number(round(num, 1))

\* extractEngagementMetrics / extractCommentUpvotes: the text of the first
\* element a selector finds is parsed
ParseNumber(text) ==
    /\ ~parsed.done
    /\ parsed' = [text |-> text, result |-> parseNumber(text), done |-> TRUE]
    /\ UNCHANGED << storeVars, genVars, raceVars, bg, web, ui, prompt, handlers, appends, onboarding, inflight >>

NextExtract == \E text \in ParseTexts : ParseNumber(text)

SpecExtract == Init /\ [][NextExtract]_vars

(***************************************************************************)
(* Properties of the background service (SpecBackground, SpecGenerate).    *)
(***************************************************************************)
\* the request types whose handler returns something to send back
TypesWithData ==
    { "GENERATE_REPLY", "GET_STORED_SETTINGS", "GET_REPLY_HISTORY", "EXPORT_DATA",
      "HEALTH_CHECK", "TEST_API_KEY", "GET_STORAGE_STATS" }

\* the one response of a request of this type whose handler ended this way
AnsweredOnce(type, outcome, responses) ==
    /\ Len(responses) = 1
    /\ responses[1].success \in BOOLEAN
    /\ outcome = "completed" =>
          /\ responses[1].success = TRUE
          /\ type \in TypesWithData => "data" \in DOMAIN responses[1]
    /\ outcome \in {"threw", "unknown"} =>
          /\ responses[1].success = FALSE
          /\ "error" \in DOMAIN responses[1]
          /\ responses[1].error \in STRING

\* C11: every request the background service receives is answered exactly
\* once with an object carrying a boolean success: true (with data, where the
\* operation returns something) when the handler completes, false with an
\* error string when it throws or the type is unknown; a GENERATE_REPLY
\* request, whose handler awaits, is not answered before its handler ends and
\* is always answered in the end.
C11_AnsweredExactlyOnce ==
    /\ [](bg.msg # NoMessage => AnsweredOnce(bg.msg.type, bg.msg.outcome, bg.msg.responses))
    /\ [](bg.pc = "done" => AnsweredOnce("GENERATE_REPLY", bg.outcome, bg.responses))
    /\ [](bg.pc # "done" => bg.responses = << >>)
    /\ (bg.pc \notin {"idle", "done"}) ~> (bg.pc = "done")

\* a request of an unknown type has been answered
C11_Witness ==
    /\ bg.msg # NoMessage
    /\ bg.msg.outcome = "unknown"
    /\ bg.msg.responses = << [success |-> FALSE, error |-> "Unknown message type"] >>
    /\ bg.pc = "generate"

\* saveHistory is enabled both when handleGenerateReply reads the settings
\* and when addToHistory reads them again (no request is handled between
\* addToHistory and the answer, so the settings stored then are those of now)
HistoryEnabled ==
    /\ TruthyBoolean(bg.settings, "saveHistory")
    /\ TruthyBoolean(getSettings(settings), "saveHistory")

\* C15: a successful generation adds exactly one entry to the history, the
\* newest, when saveHistory is enabled (the stored entries follow it, up to
\* the cap), and leaves the history as it was when saveHistory is disabled
\* or unset.
C15_OneEntryWhenEnabled ==
    (bg.pc = "done" /\ bg.outcome = "completed") =>
        IF HistoryEnabled
        THEN /\ Len(bg.added) = 1
             /\ bg.added[1].id \notin Ids(bg.before)
             /\ bg.added[1].reply = bg.reply.content
             /\ history = SubSeq(bg.added \o getReplyHistory(bg.before, 0), 1, Len(history))
             /\ Len(history) = IF Len(bg.before) < maxHistorySize
                               THEN Len(bg.before) + 1 ELSE maxHistorySize
        ELSE /\ bg.added = << >>
             /\ history = bg.before

\* a generation has succeeded with saveHistory enabled and its entry is the
\* first of a history that held an entry already
C15_Witness ==
    /\ bg.pc = "done" /\ bg.outcome = "completed"
    /\ HistoryEnabled
    /\ Len(bg.before) >= 1
    /\ history[1] = bg.added[1]

\* both requests have been answered with success, each having found
\* saveHistory enabled at both of its reads
BothAppended ==
    \A h \in HandlerIds :
        handlers[h].pc = "done" /\ handlers[h].outcome = "completed" /\ handlers[h].entry # << >>

\* C24 (as claimed): history appends are not lost: when two GENERATE_REPLY
\* requests are handled with overlapping awaits and saveHistory is enabled,
\* both generated replies are in the stored history once both requests have
\* been answered.
C24_NoAppendLost ==
    BothAppended => \A h \in HandlerIds : handlers[h].entry.id \in Ids(history)

\* C24 (amended): the append that is written last wins.  Once both requests
\* have been answered, the stored history is the history the last writer
\* had read with its entry in front, so its reply is present, and the reply
\* of a request that wrote earlier is lost if the last writer read the
\* history before that write (the write the last writer did see is kept).
C24_LastAppendWins ==
    BothAppended =>
        LET w == appends[Len(appends)]
            seen == handlers[w].readAt
        IN
        /\ history = addToHistory(handlers[w].read, handlers[w].entry)
        /\ history[1] = handlers[w].entry
        /\ \A i \in 1 .. Len(appends) - 1 :
              i > seen => handlers[appends[i]].entry.id \notin Ids(history)
        /\ seen >= 1 => handlers[appends[seen]].entry.id \in Ids(history)

\* both requests have been answered with success and the reply of the one
\* that wrote first is not in the history
C24_Witness ==
    /\ BothAppended
    /\ handlers[appends[1]].entry.id \notin Ids(history)
    /\ handlers[appends[2]].entry.id \in Ids(history)

\* C25 (as claimed): if the completion call succeeds, the GENERATE_REPLY
\* request is answered with success and the generated reply, even when saving
\* the reply to history fails.
C25_ReplyReturnedWhenSaveFails ==
    (bg.pc = "done" /\ bg.reply # NoReply) =>
        bg.responses[Len(bg.responses)] = [success |-> TRUE, data |-> bg.reply]

\* C19: a generation requested with no API key configured fails with the
\* code API_KEY_MISSING and is answered with that code's sentence.
C19_MissingKeyCategorized ==
    ( /\ bg.pc = "done"
      /\ "post" \in DOMAIN bg.data /\ "customization" \in DOMAIN bg.data
      /\ ~TruthyString(getSettings(settings), "openaiApiKey") ) =>
        /\ bg.outcome = "threw"
        /\ \A i \in 1 .. Len(bg.codes) : bg.codes[i] = "API_KEY_MISSING"
        /\ bg.responses =
              << [ success |-> FALSE,
                   error   |-> "OpenAI API key is required. Please configure it in extension settings." ] >>

(***************************************************************************)
(* The prompt's numbers: the target word count and the token budget, in    *)
(* the extension's AIService and in the web app's generateAIReply.         *)
(***************************************************************************)
\* getMaxTokens: Math.max(50, Math.min(1000, Math.round(targetWords * 1.8)))
getMaxTokens(customization) ==
    LET rounded == (18 * getTargetWordCount(customization) + 5) \div 10
        capped  == IF rounded > 1000 THEN 1000 ELSE rounded
    IN  IF capped < 50 THEN 50 ELSE capped

\* buildPrompt and the request body of makeAPIRequest
BuildPrompt(customization) ==
    /\ prompt' = [ by |-> "AIService", customization |-> customization,
                   targetWords |-> getTargetWordCount(customization),
                   maxTokens |-> getMaxTokens(customization) ]
    /\ UNCHANGED << storeVars, genVars, raceVars, bg, web, ui, pageVars >>

\* generateAIReply's prompt and max_tokens: Math.max(targetWords * 2, 100)
WebBuildPrompt(customization) ==
    /\ prompt' = [ by |-> "generateAIReply", customization |-> customization,
                   targetWords |-> webTargetWords(customization),
                   maxTokens |-> IF 2 * webTargetWords(customization) > 100
                                 THEN 2 * webTargetWords(customization) ELSE 100 ]
    /\ UNCHANGED << storeVars, genVars, raceVars, bg, web, ui, pageVars >>

\* the lengths a customization asks for: the extension's form parses any
\* number (0 among them), the web app's schema lets through the custom
\* lengths within its limits
CustomLengths == MinCustomLength .. MaxCustomLength
ExtensionLengths ==
    { [length |-> l] : l \in {"small", "medium", "large", "custom"} }
    \cup { [length |-> "custom", customLength |-> n] : n \in {0} \cup CustomLengths }
WebLengths ==
    { [length |-> l] : l \in {"small", "medium", "long", "custom"} }
    \cup { [length |-> "custom", customLength |-> n] : n \in CustomLengths }

NextPrompt ==
    \/ \E customization \in ExtensionLengths : BuildPrompt(customization)
    \/ \E customization \in WebLengths : WebBuildPrompt(customization)

SpecPrompt == Init /\ [][NextPrompt]_vars

\* C17: for every customization with length=custom and customLength=N,
\* 5 <= N <= 500, the target word count written into the prompt is N, in the
\* extension's AIService and in the web app's generateAIReply.
C17_CustomLengthIsTarget ==
    ( /\ prompt.by \in {"AIService", "generateAIReply"}
      /\ prompt.customization.length = "custom"
      /\ "customLength" \in DOMAIN prompt.customization
      /\ prompt.customization.customLength \in CustomLengths ) =>
        prompt.targetWords = prompt.customization.customLength

\* the extension has built a prompt for the largest custom length
C17_Witness ==
    /\ prompt.by = "AIService"
    /\ prompt.customization = [length |-> "custom", customLength |-> MaxCustomLength]
    /\ prompt.targetWords = MaxCustomLength

(***************************************************************************)
(* One generation, in the extension and in the web app, over the texts a   *)
(* completion can hold.                                                    *)
(***************************************************************************)
\* The texts of the model have at most this many characters.
MaxTextLen == 4

\* words, blanks and a line break
Texts ==
    UNION { [1 .. n -> {"w", " "}] : n \in 0 .. MaxTextLen }
    \cup { << "w", "\n", "w" >>, << "\n", "w", " ", "\n" >> }

\* what an attempt receives: a completion with a text, with no content, or a
\* network failure
CompletionOutcomes ==
    { [kind |-> "ok", content |-> t] : t \in Texts \cup {NoContent} }
    \cup { [kind |-> "network", text |-> "Failed to fetch"] }

GenerationIdle == genPc = "idle"

NextCompletion ==
    \/ ServerIdle /\ GenerateReply("sk-A")
    \/ \E outcome \in CompletionOutcomes : ServerIdle /\ AttemptSettles(outcome)
    \/ ServerIdle /\ BackoffElapses
    \/ ServerIdle /\ GenerateReplyDone
    \/ \E url \in Urls : GenerationIdle /\ FetchPost(url, TRUE)
    \/ \E body \in WebBodies : \E completion \in CompletionOutcomes :
          /\ GenerationIdle
          /\ body.customization.length = "small"
          /\ WebGenerate(body, completion)

SpecCompletion == Init /\ [][NextCompletion]_vars

\* the number of white-space-separated tokens of a text: its maximal runs of
\* characters that are not white space
TokenCount(text) ==
    Cardinality({ i \in 1 .. Len(text) :
                    text[i] \notin Whitespace /\ (i = 1 \/ text[i - 1] \in Whitespace) })

\* C18: absent failures, one generation request makes exactly one call to
\* the completion endpoint and returns a reply whose wordCount is the number
\* of white-space-separated tokens of the content it returns, in the
\* extension's generateReply and in the web app's POST /api/reply/generate.
C18_OneCallAndTokenCount ==
    /\ (genPc = "returned" /\ \A i \in 1 .. Len(outcomes) : attemptError(outcomes[i]) = NoError) =>
          /\ requests = 1
          /\ aiReply(genResult).content = trim(outcomes[1].content)
          /\ aiReply(genResult).wordCount = TokenCount(genResult)
    /\ (web.last.route = "generate" /\ web.last.status = 200) =>
          /\ web.last.calls = 1
          /\ web.last.body.wordCount = TokenCount(web.last.body.content)

\* the web app has answered with a reply of two words that two blanks separate
C18_Witness ==
    /\ web.last.route = "generate" /\ web.last.status = 200
    /\ web.last.body.content = << "w", " ", " ", "w" >>
    /\ web.last.body.wordCount = 2

(***************************************************************************)
(* Properties of what a generation stores (SpecApp).                       *)
(***************************************************************************)
\* a step of the GENERATE_REPLY handler that does not end it with a reply
HandlerGoesOnOrFails ==
    /\ bg.msg = NoMessage /\ bg'.msg = NoMessage
    /\ bg' # bg
    /\ ~(bg'.pc = "done" /\ bg'.outcome = "completed")

\* C14: a failed generation stores nothing.  When POST /api/reply/generate
\* answers 404 or 500 the reply rows are those stored before the request, and
\* the 404 is answered without a completion call; when the GENERATE_REPLY
\* handler throws, no entry has been added to the history, and no step of the
\* handler but the one that ends it with a reply changes the history.
C14_FailureStoresNothing ==
    /\ []( (web.last.route = "generate" /\ web.last.status \in {404, 500}) =>
              /\ web.aiReplies = web.last.before
              /\ web.last.status = 404 => web.last.calls = 0 )
    /\ []( (bg.pc = "done" /\ bg.outcome = "threw") =>
              /\ bg.added = << >>
              /\ history = bg.before )
    /\ [][ HandlerGoesOnOrFails => history' = history ]_vars

\* the completion call of a request for a stored post has failed, a row
\* being stored already
C14_Witness ==
    /\ web.last.route = "generate"
    /\ web.last.status = 500 /\ web.last.calls = 1
    /\ Len(web.aiReplies) = 1

\* C16: every stored reply records the post and the customization it was
\* produced with: each reply row of the web app carries the id of the post of
\* its request and the request's direction, length (with the custom word
\* count when the length is custom) and mood, and so does each entry the
\* extension adds to the history.
C16_StoredReplyRecordsRequest ==
    /\ \A i \in 1 .. Len(web.aiReplies) :
          LET row == web.aiReplies[i]
              c   == web.asked[i].customization
          IN  /\ web.redditPosts[row.postId].url = web.asked[i].redditUrl
              /\ row.direction = c.direction
              /\ row.length = c.length
              /\ row.mood = webMood(c)
              /\ c.length = "custom" =>
                    "customLength" \in DOMAIN row /\ row.customLength = c.customLength
    /\ (bg.pc = "done" /\ bg.added # << >>) =>
          /\ bg.added[1].postId = bg.data.post.id
          /\ bg.added[1].customization = bg.data.customization

(***************************************************************************)
(* Properties of the UI surfaces (SpecUI).                                 *)
(***************************************************************************)
\* C12: on each UI surface at most one generation request is in flight at
\* any time: no modal, no panel and no form has two unanswered requests that
\* were started from it.
C12_OneRequestInFlight ==
    \A i, j \in 1 .. Len(ui.requests) : i # j => ui.requests[i] # ui.requests[j]

\* the surface a failure was reported on is idle: its loading indicator is
\* hidden and its submit or retry control can be used
IdleAfterFailure ==
    ui.last.event = "failed" =>
        CASE ui.last.surface = "modal" ->
               (ui.modal.open /\ ui.modal.id = ui.last.instance) =>
                   ~ui.modal.loading /\ ~ui.modal.disabled
          [] ui.last.surface = "panel" -> ui.panel.open => ui.panel.view = "error"
          [] ui.last.surface = "form"  -> ~ui.form.pending

\* C13: every generation failure returns the UI to an idle state from which
\* the user can retry: when a request fails the loading indicator of its
\* surface is cleared and the submit or retry control is enabled, and, every
\* request being answered in the end, no surface stays loading for ever.
C13_FailureReturnsToIdle ==
    /\ []IdleAfterFailure
    /\ (ui.modal.open /\ ui.modal.loading) ~> ~(ui.modal.open /\ ui.modal.loading)
    /\ (ui.panel.open /\ ui.panel.view = "loading") ~> ~(ui.panel.open /\ ui.panel.view = "loading")
    /\ ui.form.pending ~> ~ui.form.pending

\* the request of the open panel has failed and the panel shows the error
\* block with its retry button
C13_Witness ==
    /\ ui.last.event = "failed" /\ ui.last.surface = "panel"
    /\ ui.last.instance = ui.panel.id
    /\ ui.panel.open /\ ui.panel.view = "error"
    /\ ui.requests = << >>

\* C20: whenever content extraction fails, the entry point that called
\* extractCurrentContent and received null displays an error message to the
\* user.
C20_ExtractionFailureShown ==
    ui.last.event = "extractionFailed" => ui.last.message # "none"

(***************************************************************************)
(* Properties of the content script's message handling (SpecUI).           *)
(***************************************************************************)
\* C21 (as claimed): clicking the 'Generate AI Reply' context-menu item opens
\* the reply UI: the message the background sends to the tab is of a type the
\* content script handles, and the content script answers it with success.
C21_ContextMenuAnsweredWithSuccess ==
    ui.last.event = "menuClicked" => ui.last.response = "success"

\* C23 (as claimed): when the background answers a modal's GENERATE_REPLY
\* request with success, the modal inserts the reply text into its textbox
\* and closes, without reporting a failure to the user.
C23_SuccessInsertsReply ==
    (ui.last.event # "none" /\ ui.last.surface = "modal" /\ ui.last.response = "success")
        => (ui.last.event = "inserted" /\ ui.last.message = "none")

(***************************************************************************)
(* Properties of number parsing (SpecExtract).                             *)
(***************************************************************************)
\* a decimal literal: digits, or digits with a point inside or in front
IsLiteral(text) ==
    /\ text # << >>
    /\ \A i \in 1 .. Len(text) : IsDigit(text[i]) \/ text[i] = "."
    /\ IsDigit(text[Len(text)])
    /\ Cardinality({ i \in 1 .. Len(text) : text[i] = "." }) <= 1

\* the text is a literal followed by the suffix and nothing else
Suffixed(text, suffix) ==
    /\ Len(text) >= 2
    /\ text[Len(text)] = suffix
    /\ IsLiteral(SubSeq(text, 1, Len(text) - 1))

\* the text holds one run of digits, set off by spaces from the words around
\* it, and neither a point nor another digit
PlainInteger(text) ==
    \E i \in 1 .. Len(text) : \E j \in i .. Len(text) :
        /\ \A n \in 1 .. Len(text) :
              IF n \in i .. j THEN IsDigit(text[n]) ELSE ~IsDigit(text[n]) /\ text[n] # "."
        /\ i = 1 \/ text[i - 1] = " "
        /\ j = Len(text) \/ text[j + 1] = " "

\* C22 (as claimed): parseNumber multiplies by 1,000 or by 1,000,000 exactly
\* when the number carries a k or M suffix ("1.2k" gives 1200, "10M" gives
\* 10000000), and a text holding a plain integer, with or without words
\* around it, parses to that integer.
C22_ParseNumberScalesOnSuffixOnly ==
    parsed.done =>
        /\ Suffixed(parsed.text, "k") =>
              parsed.result = Number(round(parseFloat(parsed.text), 1000))
        /\ Suffixed(parsed.text, "M") =>
              parsed.result = Number(round(parseFloat(parsed.text), 1000000))
        /\ PlainInteger(parsed.text) =>
              parsed.result = Number(DecimalValue(SelectSeq(parsed.text, IsDigit)))

(***************************************************************************)
(* Properties of the onboarding page (SpecOnboarding).                     *)
(***************************************************************************)
\* C26 (as claimed): onboarding advances from step 2 to step 3 only if the
\* entered API key passed validation and was handed to storage, and when
\* validation fails nextStep leaves currentStep at 2 (it sets no transition).
C26_AdvanceOnlyWithSavedKey ==
    /\ (onboarding.last.event = "advanced" /\ onboarding.last.from = 2)
          => (onboarding.last.passed /\ onboarding.apiKey \in onboarding.handed)
    /\ (onboarding.last.event \in {"click", "enter"} /\ onboarding.last.from = 2
           /\ ~onboarding.last.passed)
          => onboarding.last.started = 0

\* C27 (as claimed): currentStep stays within 1..totalSteps and a user
\* action (a Next click or an Enter press) advances it by one step at most,
\* also when several arrive before the transition timer of an earlier one
\* fires.
C27_StepWithinRange ==
    /\ onboarding.currentStep \in 1 .. totalSteps
    /\ onboarding.last.event \in {"click", "enter"} => onboarding.last.started <= 1

\* C30 (as claimed): every API key onboarding accepts and stores passes
\* AIService.validateApiKey, the format check made before a generation.
C30_StoredKeyIsWellFormed ==
    onboarding.stored # << >> => validateApiKey(onboarding.stored.openaiApiKey)

(***************************************************************************)
(* Properties of the stored posts (SpecFetch).                             *)
(***************************************************************************)
\* C29 (as claimed): no two stored RedditPosts share a URL: a fetch or a
\* manual submission for a URL that is already stored creates no post, also
\* when several requests for the same URL are being handled at once.
C29_OnePostPerUrl ==
    \A i \in 1 .. Len(web.redditPosts) : \A j \in 1 .. Len(web.redditPosts) :
        web.redditPosts[i].url = web.redditPosts[j].url => i = j

(***************************************************************************)
(* Properties of the web app's client (SpecRegenerate).                    *)
(***************************************************************************)
\* C28 (as claimed): Regenerate re-issues the generation with the same
\* customization as the request that produced the displayed reply (same
\* direction, same length including a custom word count, same mood including
\* a custom mood), and the re-issued request passes the server's validation.
C28_RegenerateRepeatsRequest ==
    web.last.route = "regenerate" =>
        /\ web.last.request.customization = web.last.original.customization
        /\ parses(web.last.request)

(***************************************************************************)
(* Properties of the retry loop (SpecGen).                                 *)
(***************************************************************************)
IsHttp(outcome, status) == outcome.kind = "http" /\ outcome.status = status
\* a network exception, HTTP 429 or HTTP 5xx, whatever text comes with it
Transient(outcome) ==
    \/ outcome.kind = "network"
    \/ outcome.kind = "http" /\ (outcome.status = 429 \/ outcome.status >= 500)
\* HTTP 200 without choices[0].message.content, or with empty content
Malformed(outcome) == outcome.kind = "ok" /\ trim(outcome.content) \in {NoContent, << >>}
Failed(outcome) == attemptError(outcome) # NoError

\* C2: a call whose first attempt receives HTTP 401 makes exactly one
\* request: it throws that error at once, with no retry and no backoff wait.
C2_Http401NotRetried ==
    (outcomes # << >> /\ IsHttp(outcomes[1], 401))
        => /\ genPc = "threw"
           /\ requests = 1
           /\ sleeps = << >>
           /\ lastError = attemptError(outcomes[1])

\* C2 witness: a call has thrown after a first attempt answered 401 with no
\* message in the body.
C2_Witness ==
    /\ genPc = "threw"
    /\ outcomes = << [kind |-> "http", status |-> 401, text |-> ""] >>
    /\ requests = 1

\* C3: a call whose attempts fail with transient failures, whatever their
\* error text, is retried until maxRetries attempts are made: the error is
\* thrown only once they are exhausted, and a reply is returned as soon as an
\* attempt succeeds.
C3_TransientRetriedUntilExhausted ==
    /\ (genPc = "threw" /\ outcomes # << >> /\ \A i \in 1 .. Len(outcomes) : Transient(outcomes[i]))
          => requests = maxRetries
    /\ genPc = "returned"
          => /\ ~Failed(outcomes[Len(outcomes)])
             /\ \A i \in 1 .. Len(outcomes) - 1 : Failed(outcomes[i])
    /\ requests <= maxRetries

\* C4 as claimed: a malformed completion response fails fast, after that
\* single attempt and without retry.
C4_MalformedFailsFast ==
    (outcomes # << >> /\ Malformed(outcomes[1]))
        => genPc = "threw" /\ requests = 1

\* C4 amended: a malformed completion response is retried like a transient
\* failure: after it the call waits the backoff and tries again while fewer
\* than maxRetries attempts were made, and its format error is thrown only
\* when it is the outcome of attempt maxRetries.
C4_MalformedRetried ==
    (outcomes # << >> /\ Malformed(outcomes[Len(outcomes)]))
        => IF Len(outcomes) < maxRetries
           THEN /\ genPc \in {"sleep", "fetch"}
                /\ Len(sleeps) = Len(outcomes)
           ELSE /\ genPc = "threw"
                /\ requests = maxRetries
                /\ lastError \in { << "Invalid response format from OpenAI API" >>,
                                   << "Empty response from OpenAI API" >> }

\* C4 witness: a call has thrown the format error after three attempts, the
\* first and the last of which received a malformed response.
C4_Witness ==
    /\ genPc = "threw"
    /\ Len(outcomes) = maxRetries
    /\ Malformed(outcomes[1])
    /\ Malformed(outcomes[maxRetries])
    /\ requests = maxRetries
    /\ sleeps = << backoffDelay(1), backoffDelay(2) >>

(***************************************************************************)
(* Properties of the reply history (SpecHistory).                          *)
(***************************************************************************)
Range(q) == { q[i] : i \in 1 .. Len(q) }
Count(q, x) == Cardinality({ i \in 1 .. Len(q) : q[i] = x })
SameEntries(a, b) ==
    /\ Len(a) = Len(b)
    /\ \A x \in Range(a) \cup Range(b) : Count(a, x) = Count(b, x)
WithoutIndex(q, i) == SubSeq(q, 1, i - 1) \o SubSeq(q, i + 1, Len(q))
DistinctIds(h) == \A i, j \in 1 .. Len(h) : i # j => h[i].id # h[j].id

\* C1: in every reachable state, after any sequence of addToHistory,
\* removeFromHistory, clearHistory and importData calls, the stored history
\* holds at most maxHistorySize (500 in the source) entries.
C1_HistoryNeverExceedsCap == Len(history) <= maxHistorySize

\* C7: importData merges by id: when the stored ids were pairwise distinct
\* before the import, no two stored entries share an id after it, and every
\* stored entry is kept (an imported entry with a stored id does not replace it).
C7_ImportMergesById ==
    (last.op = "importData" /\ "history" \in DOMAIN last.arg /\ DistinctIds(last.pre.history))
        => /\ DistinctIds(history)
           /\ \A e \in Range(last.pre.history) : e \in Range(history)

\* C8: addToHistory on a history that holds exactly maxHistorySize entries,
\* with saveHistory enabled, leaves exactly maxHistorySize entries: the new
\* reply is stored, and the entries kept are the old ones without one entry,
\* which has the oldest timestamp of the old history.
C8_FullHistoryEvictsOldest ==
    ( /\ last.op = "addToHistory"
      /\ Len(last.pre.history) = maxHistorySize
      /\ TruthyBoolean(last.pre.settings, "saveHistory") )
        => /\ Len(history) = maxHistorySize
           /\ history[1] = last.arg
           /\ \E i \in 1 .. Len(last.pre.history) :
                /\ SameEntries(Tail(history), WithoutIndex(last.pre.history, i))
                /\ \A j \in 1 .. Len(last.pre.history) :
                     last.pre.history[i].timestamp <= last.pre.history[j].timestamp

\* C8 witness: a reply was added to a full history whose last stored entry
\* was not its oldest one (the eviction had to find the oldest).
C8_Witness ==
    /\ last.op = "addToHistory"
    /\ Len(last.pre.history) = maxHistorySize
    /\ TruthyBoolean(last.pre.settings, "saveHistory")
    /\ \E j \in 1 .. Len(last.pre.history) :
         last.pre.history[j].timestamp < last.pre.history[Len(last.pre.history)].timestamp
    /\ Len(history) = maxHistorySize

(***************************************************************************)
(* Properties of the settings record (SpecSettings).                       *)
(***************************************************************************)
\* the stored API key, absent included
KeyOf(s) == IF "openaiApiKey" \in DOMAIN s THEN << "set", s.openaiApiKey >> ELSE << "unset" >>
WithKey(s, k) == IF k = << "unset" >> THEN Omit(s, "openaiApiKey")
                 ELSE Spread(s, [openaiApiKey |-> k[2]])
StoredKeys == { << "unset" >> } \cup { << "set", k >> : k \in ApiKeys }

\* C5: exportData returns settings whose openaiApiKey is the redaction marker
\* whatever key is stored (empty and unset included); a store that differs
\* only in the stored key yields the same export apart from exportTimestamp;
\* and exporting leaves the stored settings, the key with them, unchanged.
C5_ExportRedactsKey ==
    last.op = "exportData"
        => /\ KeyOf(last.result.settings) = << "set", REDACTED >>
           /\ \A k \in StoredKeys : \A now \in Timestamps :
                Omit(exportData(WithKey(last.pre.settings, k), last.pre.history, now),
                     "exportTimestamp")
                  = Omit(last.result, "exportTimestamp")
           /\ settings = last.pre.settings

\* C5 witness: an export was made of a store that holds a real key.
C5_Witness ==
    /\ last.op = "exportData"
    /\ TruthyString(last.pre.settings, "openaiApiKey")
    /\ KeyOf(settings) = KeyOf(last.pre.settings)

\* C6: importData never changes the stored API key: whatever the payload
\* carries, the stored openaiApiKey after the import is the one before it
\* (absent stays absent).
C6_ImportKeepsStoredKey ==
    last.op = "importData" => KeyOf(settings) = KeyOf(last.pre.settings)

\* C6 witness: an import whose settings carried a real key other than the
\* stored one, and changed another field, has completed.
C6_Witness ==
    /\ last.op = "importData"
    /\ "settings" \in DOMAIN last.arg
    /\ TruthyString(last.arg.settings, "openaiApiKey")
    /\ last.arg.settings.openaiApiKey # REDACTED
    /\ TruthyString(last.pre.settings, "openaiApiKey")
    /\ KeyOf(last.arg.settings) # KeyOf(last.pre.settings)
    /\ settings # last.pre.settings

\* the partial update a completed call merged
MergedPartial ==
    IF last.op = "updateSettings" THEN last.arg ELSE popupSettings(last.arg)

\* C9: updateSettings(partial), called directly or by the popup's
\* saveSettings, merges: each field named in the partial takes the value
\* given, every other top-level field keeps its value (an absent one stays absent).
C9_UpdateSettingsMerges ==
    last.op \in {"updateSettings", "saveSettings"}
        => \A f \in SettingsFields :
             IF f \in DOMAIN MergedPartial
             THEN f \in DOMAIN settings /\ settings[f] = MergedPartial[f]
             ELSE /\ (f \in DOMAIN settings) = (f \in DOMAIN last.pre.settings)
                  /\ f \in DOMAIN settings => settings[f] = last.pre.settings[f]

\* C9 witness: an update that named some stored field with a new value and
\* left another stored field unnamed has completed.
C9_Witness ==
    /\ last.op = "updateSettings"
    /\ \E f \in DOMAIN last.arg \cap DOMAIN last.pre.settings : last.arg[f] # last.pre.settings[f]
    /\ (DOMAIN last.pre.settings) \ (DOMAIN last.arg) # {}

(***************************************************************************)
(* Properties of overlapping settings updates (SpecRace).                  *)
(***************************************************************************)
FieldOf(s, f) == IF f \in DOMAIN s THEN << "set", s[f] >> ELSE << "unset" >>
\* the top-level fields a call means to change
OwnFields(c) ==
    IF calls[c].kind = "updateDefaultCustomization" THEN {"defaultCustomization"}
    ELSE DOMAIN calls[c].own
\* a and b have both completed, each read the record before any write
\* landed, and b wrote last
Overlapped(a, b) ==
    /\ a # b
    /\ calls[a].pc = "done" /\ calls[b].pc = "done"
    /\ calls[a].readAt = 0 /\ calls[b].readAt = 0
    /\ writes # << >> /\ writes[Len(writes)] = b

\* C10: last write wins: when two calls both read the settings record
\* before either writes, the record stored after both complete is the later
\* writer's merge of that earlier snapshot with its own fields, and a field
\* that only the earlier writer changed holds its value of the snapshot.
C10_LastWriteWins ==
    \A a, b \in CallIds :
        Overlapped(a, b)
            => /\ calls[a].current = calls[b].current
               /\ settings = updateSettings(calls[b].current, calls[b].arg)
               /\ \A f \in OwnFields(a) \ OwnFields(b) :
                     FieldOf(settings, f) = FieldOf(calls[b].current, f)

\* C10 witness: two updateSettings calls overlapped, and the earlier writer
\* had given a field, not named by the later one, a value the snapshot did
\* not hold.
C10_Witness ==
    \E a, b \in CallIds :
        /\ Overlapped(a, b)
        /\ calls[a].kind = "updateSettings" /\ calls[b].kind = "updateSettings"
        /\ \E f \in OwnFields(a) \ OwnFields(b) :
              << "set", calls[a].own[f] >> # FieldOf(calls[b].current, f)

====
